---- MODULE Spec2Model ----
(***************************************************************************)
(* A model of the Clarity toolchain: the source-language lexer and parser  *)
(* (clarity_parser.py), the tree-walking interpreter with its chained      *)
(* environments (clarity_interpreter.py) and the translator's proof        *)
(* objects (language_project/translator.py).                               *)
(*                                                                         *)
(* Python strings are TLA+ strings (TLC evaluates Len, SubSeq and \o on    *)
(* them); a character is a string of length 1 and the missing character    *)
(* (Python None for Lexer.current_char) is the empty string.               *)
(***************************************************************************)
EXTENDS Integers, Sequences, FiniteSets, TLC

VARIABLES
    heap,               \* the Environment objects alive: id -> [vars, parent]
    global_env,         \* Interpreter.global_env: the id of the current Environment
    last,               \* what the last operation did (its outcome and its event log)
    translation_proofs, \* ClarityToBOCTranslator.translation_proofs
    held,               \* what the translator's caller holds: source, document, proof
    verdict,            \* the outcome of the caller's last verification
    held_lexer,         \* the lexer object that a token-by-token caller holds
    instances           \* objects that run side by side, each with its own caller

vars == <<heap, global_env, last, translation_proofs, held, verdict, held_lexer, instances>>

(***************************************************************************)
(* Characters                                                              *)
(***************************************************************************)
NoneCh == ""

CharAt(text, i) == SubSeq(text, i + 1, i + 1)      \* text[i], 0-based as in Python

UpperCase == "ABCDEFGHIJKLMNOPQRSTUVWXYZ"
LowerCase == "abcdefghijklmnopqrstuvwxyz"
Digits == "0123456789"

IndexIn(c, alphabet) ==
    IF \E i \in 1..Len(alphabet) : SubSeq(alphabet, i, i) = c
    THEN CHOOSE i \in 1..Len(alphabet) : SubSeq(alphabet, i, i) = c
    ELSE 0

isspace(c) == c \in {" ", "\n", "\t", "\r"}
isdigit(c) == IndexIn(c, Digits) # 0
isalpha(c) == IndexIn(c, UpperCase) # 0 \/ IndexIn(c, LowerCase) # 0
isalnum(c) == isalpha(c) \/ isdigit(c)

RECURSIVE lower(_)
lower(s) ==
    IF s = "" THEN ""
    ELSE LET c == SubSeq(s, 1, 1)
             i == IndexIn(c, UpperCase)
         IN (IF i # 0 THEN SubSeq(LowerCase, i, i) ELSE c) \o lower(SubSeq(s, 2, Len(s)))

\* int(value) for a run of decimal digits
RECURSIVE int(_)
int(s) ==
    IF s = "" THEN 0
    ELSE 10 * int(SubSeq(s, 1, Len(s) - 1)) + (IndexIn(SubSeq(s, Len(s), Len(s)), Digits) - 1)

(***************************************************************************)
(* Lexer (clarity_parser.py)                                               *)
(***************************************************************************)
Token(type, value, line, column) ==
    [type |-> type, value |-> value, line |-> line, column |-> column]

Lexer(text) ==
    [text |-> text, pos |-> 0,
     current_char |-> IF text # "" THEN CharAt(text, 0) ELSE NoneCh,
     line |-> 1, column |-> 0]

advance(lx) ==
    LET nl == lx.current_char = "\n"
        pos == lx.pos + 1
    IN [lx EXCEPT !.line = IF nl THEN lx.line + 1 ELSE lx.line,
                  !.column = IF nl THEN 0 ELSE lx.column + 1,
                  !.pos = pos,
                  !.current_char = IF pos >= Len(lx.text) THEN NoneCh
                                   ELSE CharAt(lx.text, pos)]

peek(lx) ==
    IF lx.pos + 1 >= Len(lx.text) THEN NoneCh ELSE CharAt(lx.text, lx.pos + 1)

RECURSIVE skip_whitespace(_)
skip_whitespace(lx) ==
    IF lx.current_char # NoneCh /\ isspace(lx.current_char)
    THEN skip_whitespace(advance(lx))
    ELSE lx

RECURSIVE skip_comment(_)
skip_comment(lx) ==
    IF lx.current_char # NoneCh /\ lx.current_char # "\n"
    THEN skip_comment(advance(lx))
    ELSE lx

\* read_number, read_identifier and read_string return the lexer they leave
\* and the text they read
RECURSIVE read_number_loop(_, _)
read_number_loop(lx, result) ==
    IF lx.current_char # NoneCh /\ isdigit(lx.current_char)
    THEN read_number_loop(advance(lx), result \o lx.current_char)
    ELSE [lx |-> lx, value |-> result]

\* a scanner that takes one digit for the whole number
read_digit(lx) == [lx |-> advance(lx), value |-> lx.current_char]

read_number(lx) == read_number_loop(lx, "")

RECURSIVE read_identifier_loop(_, _)
read_identifier_loop(lx, result) ==
    IF lx.current_char # NoneCh /\ (isalnum(lx.current_char) \/ lx.current_char = "_")
    THEN read_identifier_loop(advance(lx), result \o lx.current_char)
    ELSE [lx |-> lx, value |-> result]

read_identifier(lx) == read_identifier_loop(lx, "")

RECURSIVE read_string_loop(_, _, _)
read_string_loop(lx, quote_char, result) ==
    IF lx.current_char # NoneCh /\ lx.current_char # quote_char
    THEN IF lx.current_char = "\\"
         THEN LET l1 == advance(lx)
              IN IF l1.current_char # NoneCh
                 THEN read_string_loop(advance(l1), quote_char, result \o l1.current_char)
                 ELSE read_string_loop(l1, quote_char, result)
         ELSE read_string_loop(advance(lx), quote_char, result \o lx.current_char)
    ELSE [lx |-> IF lx.current_char = quote_char THEN advance(lx) ELSE lx,
          value |-> result]

read_string(lx) == read_string_loop(advance(lx), lx.current_char, "")

keyword_map(word) ==
    CASE word = "fn" -> "FN"
      [] word = "let" -> "LET"
      [] word = "var" -> "VAR"
      [] word = "const" -> "CONST"
      [] word = "if" -> "IF"
      [] word = "else" -> "ELSE"
      [] word = "while" -> "WHILE"
      [] word = "for" -> "FOR"
      [] word = "in" -> "IN"
      [] word = "return" -> "RETURN"
      [] word = "match" -> "MATCH"
      [] word = "async" -> "ASYNC"
      [] word = "await" -> "AWAIT"
      [] word = "true" -> "TRUE"
      [] word = "false" -> "FALSE"
      [] OTHER -> "IDENTIFIER"

char_tokens(c) ==
    CASE c = "+" -> "PLUS"
      [] c = "-" -> "MINUS"
      [] c = "*" -> "MULTIPLY"
      [] c = "/" -> "DIVIDE"
      [] c = "%" -> "MODULO"
      [] c = "=" -> "ASSIGN"
      [] c = "!" -> "NOT"
      [] c = "<" -> "LT"
      [] c = ">" -> "GT"
      [] c = "(" -> "LPAREN"
      [] c = ")" -> "RPAREN"
      [] c = "{" -> "LBRACE"
      [] c = "}" -> "RBRACE"
      [] c = "[" -> "LBRACKET"
      [] c = "]" -> "RBRACKET"
      [] c = "," -> "COMMA"
      [] c = ":" -> "COLON"
      [] c = "." -> "DOT"
      [] c = ";" -> "SEMICOLON"
      [] OTHER -> ""

\* the two-character operators, tested in the order of the source
double_tokens(c, n) ==
    CASE c = "=" /\ n = ">" -> <<"ARROW", "->">>
      [] c = "-" /\ n = ">" -> <<"ARROW", "->">>
      [] c = "=" /\ n = "=" -> <<"EQ", "==">>
      [] c = "!" /\ n = "=" -> <<"NEQ", "!=">>
      [] c = "<" /\ n = "=" -> <<"LTE", "<=">>
      [] c = ">" /\ n = "=" -> <<"GTE", ">=">>
      [] c = "&" /\ n = "&" -> <<"AND", "&&">>
      [] c = "|" /\ n = "|" -> <<"OR", "||">>
      [] OTHER -> <<>>

\* get_next_token returns the lexer it leaves, the token, and the error raised
RECURSIVE get_next_token(_)
get_next_token(lx) ==
    LET c == lx.current_char
        ok(l, t) == [lx |-> l, tok |-> t, err |-> ""]
    IN IF c = NoneCh THEN ok(lx, Token("EOF", "", lx.line, lx.column))
       ELSE IF isspace(c) THEN get_next_token(skip_whitespace(lx))
       ELSE IF c = "/" /\ peek(lx) = "/"
            THEN get_next_token(skip_comment(advance(advance(lx))))
       ELSE IF isdigit(c)
            THEN LET r == read_number(lx)
                 IN ok(r.lx, Token("NUMBER", r.value, lx.line, lx.column))
       ELSE IF isalpha(c) \/ c = "_"
            THEN LET r == read_identifier(lx)
                 IN ok(r.lx, Token(keyword_map(lower(r.value)), r.value, lx.line, lx.column))
       ELSE IF c \in {"\"", "'"}
            THEN LET r == read_string(lx)
                 IN ok(r.lx, Token("STRING", r.value, lx.line, lx.column))
       ELSE IF double_tokens(c, peek(lx)) # <<>>
            THEN LET l2 == advance(advance(lx))
                     d == double_tokens(c, peek(lx))
                 IN ok(l2, Token(d[1], d[2], l2.line, l2.column - 1))
       ELSE IF char_tokens(c) # ""
            THEN ok(advance(lx), Token(char_tokens(c), c, lx.line, lx.column))
       ELSE [lx |-> lx, tok |-> Token("EOF", "", lx.line, lx.column),
             err |-> "Illegal character"]

(***************************************************************************)
(* OptimizedLexer (optimized_lexer.py).  advance, peek and skip_comment    *)
(* are the code of Lexer; the keyword and single-character tables are the  *)
(* tables of Lexer.  The object carries a token pool: (type, value) ->     *)
(* the first token made for that key.                                      *)
(***************************************************************************)
\* the vertical tab of the source set has no TLA+ string escape; no text here holds one
WHITESPACE_CHARS == {" ", "\t", "\n", "\r", "\f"}

OptimizedLexer(text) ==
    [text |-> text, pos |-> 0,
     current_char |-> IF text # "" THEN CharAt(text, 0) ELSE NoneCh,
     line |-> 1, column |-> 0, _token_pool |-> <<>>]

RECURSIVE OptimizedLexer_skip_whitespace(_)
OptimizedLexer_skip_whitespace(lx) ==
    IF lx.current_char # NoneCh /\ lx.current_char \in WHITESPACE_CHARS
    THEN OptimizedLexer_skip_whitespace(advance(lx))
    ELSE lx

RECURSIVE skip_digits(_)
skip_digits(lx) ==
    IF lx.current_char # NoneCh /\ isdigit(lx.current_char)
    THEN skip_digits(advance(lx))
    ELSE lx

\* text[start_pos:self.pos]
slice(lx, start_pos) == SubSeq(lx.text, start_pos + 1, lx.pos)

OptimizedLexer_read_number(lx) ==
    LET l1 == skip_digits(lx)
        l2 == IF l1.current_char = "." /\ peek(l1) # NoneCh /\ isdigit(peek(l1))
              THEN skip_digits(advance(l1))
              ELSE l1
    IN [lx |-> l2, value |-> slice(l2, lx.pos)]

RECURSIVE skip_letters(_)
skip_letters(lx) ==
    IF lx.current_char # NoneCh
       /\ (isalpha(lx.current_char) \/ lx.current_char = "_" \/ isdigit(lx.current_char))
    THEN skip_letters(advance(lx))
    ELSE lx

OptimizedLexer_read_identifier(lx) ==
    LET l1 == skip_letters(lx) IN [lx |-> l1, value |-> slice(l1, lx.pos)]

RECURSIVE OptimizedLexer_read_string_loop(_, _, _)
OptimizedLexer_read_string_loop(lx, quote_char, chars) ==
    IF lx.current_char # NoneCh /\ lx.current_char # quote_char
    THEN IF lx.current_char = "\\"
         THEN LET l1 == advance(lx)
              IN IF l1.current_char # NoneCh
                 THEN OptimizedLexer_read_string_loop(advance(l1), quote_char,
                                                      chars \o "\\" \o l1.current_char)
                 ELSE OptimizedLexer_read_string_loop(l1, quote_char, chars)
         ELSE OptimizedLexer_read_string_loop(advance(lx), quote_char,
                                              chars \o lx.current_char)
    ELSE [lx |-> IF lx.current_char = quote_char THEN advance(lx) ELSE lx,
          value |-> chars]

OptimizedLexer_read_string(lx) ==
    OptimizedLexer_read_string_loop(advance(lx), lx.current_char, "")

DOUBLE_CHAR_OPERATORS(two_char) ==
    CASE two_char = "=>" -> "ARROW"
      [] two_char = "==" -> "EQ"
      [] two_char = "!=" -> "NEQ"
      [] two_char = "<=" -> "LTE"
      [] two_char = ">=" -> "GTE"
      [] two_char = "&&" -> "AND"
      [] two_char = "||" -> "OR"
      [] OTHER -> ""

\* the pool as a sequence of <<key, token>> entries
pooled(pool, key) == {i \in 1..Len(pool) : pool[i][1] = key}

\* a token handed out after the lexer has moved on by one more position
get_token_and_advance(self, type, value, line, column) ==
    [lx |-> advance(self), tok |-> Token(type, value, line, column)]

get_pooled_token(self, type, value, line, column) ==
    IF type \in {"EOF", "TRUE", "FALSE"}
    THEN LET key == <<type, value>>
             pool == IF pooled(self._token_pool, key) = {}
                     THEN Append(self._token_pool, <<key, Token(type, value, line, column)>>)
                     ELSE self._token_pool
         IN [lx |-> [self EXCEPT !._token_pool = pool],
             tok |-> pool[CHOOSE i \in pooled(pool, key) : TRUE][2]]
    ELSE [lx |-> self, tok |-> Token(type, value, line, column)]

RECURSIVE OptimizedLexer_get_next_token(_)
OptimizedLexer_get_next_token(lx) ==
    LET char == lx.current_char
        ok(l, t) == [lx |-> l, tok |-> t, err |-> ""]
    IN IF char = NoneCh
       THEN LET r == get_pooled_token(lx, "EOF", "", lx.line, lx.column)
            IN ok(r.lx, r.tok)
       ELSE IF char \in WHITESPACE_CHARS
            THEN OptimizedLexer_get_next_token(OptimizedLexer_skip_whitespace(lx))
       ELSE IF char = "/" /\ peek(lx) = "/"
            THEN OptimizedLexer_get_next_token(skip_comment(advance(advance(lx))))
       ELSE IF isdigit(char)
            THEN LET r == OptimizedLexer_read_number(lx)
                 IN ok(r.lx, Token("NUMBER", r.value, lx.line, lx.column))
       ELSE IF isalpha(char) \/ char = "_"
            THEN LET r == OptimizedLexer_read_identifier(lx)
                 IN ok(r.lx, Token(keyword_map(lower(r.value)), r.value, lx.line, lx.column))
       ELSE IF char \in {"\"", "'"}
            THEN LET r == OptimizedLexer_read_string(lx)
                 IN ok(r.lx, Token("STRING", r.value, lx.line, lx.column))
       ELSE IF peek(lx) # NoneCh /\ DOUBLE_CHAR_OPERATORS(char \o peek(lx)) # ""
            THEN ok(advance(advance(lx)),
                    Token(DOUBLE_CHAR_OPERATORS(char \o peek(lx)), char \o peek(lx),
                          lx.line, lx.column))
       ELSE IF char_tokens(char) # ""
            THEN ok(advance(lx), Token(char_tokens(char), char, lx.line, lx.column))
       ELSE [lx |-> lx, tok |-> Token("EOF", "", lx.line, lx.column),
             err |-> "Illegal character"]

(***************************************************************************)
(* BOCLexer (language_project/boc_parser.py), the lexer of the knowledge   *)
(* dialect.  __init__, advance, peek, skip_whitespace and read_string are  *)
(* line for line the code of Lexer.                                        *)
(***************************************************************************)
BOCToken(type, value, line, column) ==
    [type |-> type, value |-> value, line |-> line, column |-> column]

BOCLexer(text) == Lexer(text)

RECURSIVE BOCLexer_read_number_loop(_, _)
BOCLexer_read_number_loop(lx, result) ==
    IF lx.current_char # NoneCh /\ (isdigit(lx.current_char) \/ lx.current_char = ".")
    THEN BOCLexer_read_number_loop(advance(lx), result \o lx.current_char)
    ELSE [lx |-> lx, value |-> result]

BOCLexer_read_number(lx) == BOCLexer_read_number_loop(lx, "")

RECURSIVE BOCLexer_read_identifier_loop(_, _)
BOCLexer_read_identifier_loop(lx, result) ==
    IF lx.current_char # NoneCh
       /\ (isalnum(lx.current_char) \/ lx.current_char \in {"_", "-", "@"})
    THEN BOCLexer_read_identifier_loop(advance(lx), result \o lx.current_char)
    ELSE [lx |-> lx, value |-> result]

BOCLexer_read_identifier(lx) == BOCLexer_read_identifier_loop(lx, "")

BOCLexer_read_string(lx) == read_string_loop(advance(lx), lx.current_char, "")

BOC_keyword_map(word) ==
    CASE word = "belief" -> "BELIEF"
      [] word = "reasoning_context" -> "REASONING_CONTEXT"
      [] word = "intent" -> "INTENT"
      [] word = "shared_state" -> "SHARED_STATE"
      [] word = "self_capability" -> "SELF_CAPABILITY"
      [] word = "calculate_with_uncertainty" -> "CALCULATE_WITH_UNCERTAINTY"
      [] word = "structured_knowledge" -> "STRUCTURED_KNOWLEDGE"
      [] word = "entity" -> "ENTITY"
      [] word = "true" -> "BOOLEAN"
      [] word = "false" -> "BOOLEAN"
      [] OTHER -> "IDENTIFIER"

BOC_char_tokens(c) ==
    CASE c = "=" -> "ASSIGN"
      [] c = "{" -> "LBRACE"
      [] c = "}" -> "RBRACE"
      [] c = "[" -> "LBRACKET"
      [] c = "]" -> "RBRACKET"
      [] c = "(" -> "LPAREN"
      [] c = ")" -> "RPAREN"
      [] c = "," -> "COMMA"
      [] c = ":" -> "COLON"
      [] c = "." -> "ACCESS"
      [] c = ";" -> "SEMICOLON"
      [] c = "@" -> "AT"
      [] OTHER -> ""

RECURSIVE BOCLexer_get_next_token(_)
BOCLexer_get_next_token(lx) ==
    LET c == lx.current_char
        ok(l, t) == [lx |-> l, tok |-> t, err |-> ""]
    IN IF c = NoneCh THEN ok(lx, BOCToken("EOF", "", lx.line, lx.column))
       ELSE IF isspace(c) THEN BOCLexer_get_next_token(skip_whitespace(lx))
       ELSE IF isdigit(c)
            THEN LET r == BOCLexer_read_number(lx)
                 IN ok(r.lx, BOCToken("NUMBER", r.value, lx.line, lx.column))
       ELSE IF isalpha(c) \/ c = "@"
            THEN LET r == BOCLexer_read_identifier(lx)
                 IN ok(r.lx, BOCToken(BOC_keyword_map(lower(r.value)), r.value,
                                      lx.line, lx.column))
       ELSE IF c \in {"\"", "'"}
            THEN LET r == BOCLexer_read_string(lx)
                 IN ok(r.lx, BOCToken("STRING", r.value, lx.line, lx.column))
       ELSE IF c = "." /\ peek(lx) = "."
            THEN LET l2 == advance(advance(lx))
                 IN ok(l2, BOCToken("RANGE", "..", l2.line, l2.column - 1))
       ELSE IF c = "=" /\ peek(lx) = ">"
            THEN LET l2 == advance(advance(lx))
                 IN ok(l2, BOCToken("LAMBDA", "=>", l2.line, l2.column - 1))
       ELSE IF BOC_char_tokens(c) # ""
            THEN ok(advance(lx), BOCToken(BOC_char_tokens(c), c, lx.line, lx.column))
       ELSE [lx |-> lx, tok |-> BOCToken("EOF", "", lx.line, lx.column),
             err |-> "Illegal character"]

(***************************************************************************)
(* AST nodes (clarity_parser.py).  An absent node (Python None) is         *)
(* NoneNode, an absent name is the empty string, and the optional else     *)
(* branch is <<>> when absent and <<statements>> when present.             *)
(***************************************************************************)
NoneNode == [node_type |-> "None"]
NoneStr == ""

Program(statements) == [node_type |-> "Program", statements |-> statements]

FunctionDef(name, params, return_type, body) ==
    [node_type |-> "FunctionDef", name |-> name, params |-> params,
     return_type |-> return_type, body |-> body]

VariableDecl(mutable, name, var_type, value) ==
    [node_type |-> "VariableDecl", mutable |-> mutable, name |-> name,
     var_type |-> var_type, value |-> value]

ConstantDecl(name, value) == [node_type |-> "ConstantDecl", name |-> name, value |-> value]

Assignment(name, value) == [node_type |-> "Assignment", name |-> name, value |-> value]

BinaryOp(left, operator, right) ==
    [node_type |-> "BinaryOp", left |-> left, operator |-> operator, right |-> right]

UnaryOp(operator, operand) ==
    [node_type |-> "UnaryOp", operator |-> operator, operand |-> operand]

IfExpr(condition, then_branch, else_branch) ==
    [node_type |-> "IfExpr", condition |-> condition, then_branch |-> then_branch,
     else_branch |-> else_branch]

WhileLoop(condition, body) == [node_type |-> "WhileLoop", condition |-> condition, body |-> body]

ForLoop(variable, iterable, body) ==
    [node_type |-> "ForLoop", variable |-> variable, iterable |-> iterable, body |-> body]

ReturnStmt(value) == [node_type |-> "ReturnStmt", value |-> value]

FunctionCall(name, args) == [node_type |-> "FunctionCall", name |-> name, args |-> args]

Identifier(name) == [node_type |-> "Identifier", name |-> name]

Number(value) == [node_type |-> "Number", value |-> int(value)]

String(value) == [node_type |-> "String", value |-> value]

Boolean(value) == [node_type |-> "Boolean", value |-> value]

MatchExpr(expr, arms) == [node_type |-> "MatchExpr", expr |-> expr, arms |-> arms]

(***************************************************************************)
(* Parser (clarity_parser.py).  A parser is [lexer, current_token]; every  *)
(* parse operator returns the parser it leaves, the node it built and the  *)
(* error it raised ("" when none), as a result r = [p, node, err].         *)
(***************************************************************************)
PR(p, node, err) == [p |-> p, node |-> node, err |-> err]

\* A raise: the error travels up through every caller.  Every parse operator
\* takes the result r of the step before it and hands an error in r on, so
\* that f(g(r)) reads "g, then f unless g raised".
Fail(r, e) == PR(r.p, NoneNode, e)

token(r) == r.p.current_token

with_node(r, n) == IF r.err # "" THEN r ELSE [r EXCEPT !.node = n]

\* self.current_token = self.lexer.get_next_token()
set_token(r, next_token) ==
    IF next_token.err # "" THEN Fail(r, next_token.err)
    ELSE [r EXCEPT !.p = [lexer |-> next_token.lx, current_token |-> next_token.tok]]

Parser(lexer) ==
    set_token(PR([lexer |-> lexer, current_token |-> Token("EOF", NoneCh, 0, 0)],
                 NoneNode, ""),
              get_next_token(lexer))

eat(r, token_type) ==
    IF r.err # "" THEN r
    ELSE IF token(r).type = token_type THEN set_token(r, get_next_token(r.p.lexer))
    ELSE Fail(r, "Expected token " \o token_type \o ", got " \o token(r).type)

\* the optional trailing semicolon that ends a statement
eat_semicolon(r) ==
    IF r.err = "" /\ token(r).type = "SEMICOLON" THEN eat(r, "SEMICOLON") ELSE r

\* FunctionCall's name: expr.name if hasattr(expr, 'name') else expr.value.  A
\* Number or Boolean callee gives a name that is no string, which no
\* environment binds: it is written "#..." here, which no identifier spells.
callee_name(expr) ==
    CASE expr.node_type \in {"Identifier", "FunctionCall"} -> expr.name
      [] expr.node_type = "String" -> expr.value
      [] expr.node_type = "Number" -> "#int"
      [] expr.node_type = "Boolean" -> "#bool"
      [] OTHER -> NoneStr

RECURSIVE parse_statement(_), parse_expression(_), parse_block(_, _),
          parse_params(_, _), parse_arms(_, _), parse_args(_, _),
          parse_level(_, _), parse_level_loop(_, _),
          parse_unary(_), parse_call_loop(_), parse_primary(_),
          parse_program_loop(_, _)

parse_primary(r) ==
    IF r.err # "" THEN r
    ELSE CASE token(r).type = "NUMBER" ->
                with_node(eat(r, "NUMBER"), Number(token(r).value))
           [] token(r).type = "STRING" ->
                with_node(eat(r, "STRING"), String(token(r).value))
           [] token(r).type = "TRUE" -> with_node(eat(r, "TRUE"), Boolean(TRUE))
           [] token(r).type = "FALSE" -> with_node(eat(r, "FALSE"), Boolean(FALSE))
           [] token(r).type = "IDENTIFIER" ->
                with_node(eat(r, "IDENTIFIER"), Identifier(token(r).value))
           [] token(r).type = "LPAREN" ->
                eat(parse_expression(eat(r, "LPAREN")), "RPAREN")
           [] OTHER -> Fail(r, "Unexpected token: " \o token(r).type)

\* args.append(self.parse_expression()), then ")" ends the list and anything
\* else must be a comma
args_next(r, args) ==
    IF r.err # "" THEN r
    ELSE IF token(r).type = "RPAREN" THEN with_node(r, Append(args, r.node))
    ELSE parse_args(eat(r, "COMMA"), Append(args, r.node))

parse_args(r, args) == args_next(parse_expression(r), args)

\* expr = FunctionCall(expr.name if hasattr(expr, 'name') else expr.value, args)
call_end(r, expr) ==
    IF r.err # "" THEN r
    ELSE IF expr.node_type \in {"BinaryOp", "UnaryOp"} THEN Fail(r, "AttributeError")
    ELSE with_node(r, FunctionCall(callee_name(expr), r.node))

call_args(r, expr) ==
    call_end(eat(IF r.err = "" /\ token(r).type # "RPAREN"
                 THEN parse_args(r, <<>>)
                 ELSE with_node(r, <<>>),
                 "RPAREN"),
             expr)

\* while self.current_token.type == TokenType.LPAREN
parse_call_loop(r) ==
    IF r.err # "" \/ token(r).type # "LPAREN" THEN r
    ELSE parse_call_loop(call_args(eat(r, "LPAREN"), r.node))

parse_call(r) == parse_call_loop(parse_primary(r))

unary_end(r, operator) == with_node(r, UnaryOp(operator, r.node))

parse_unary(r) ==
    IF r.err # "" THEN r
    ELSE IF token(r).type \in {"MINUS", "NOT"}
         THEN unary_end(parse_unary(eat(r, token(r).type)), token(r).value)
    ELSE parse_call(r)

\* The six binary-operator methods have one shape: parse the next tighter
\* level, then while the current token is one of the level's operators eat it,
\* parse the next tighter level again and build a left-nested BinaryOp.
\* Levels, loosest first: 1 parse_logical_or, 2 parse_logical_and,
\* 3 parse_equality, 4 parse_comparison, 5 parse_term, 6 parse_factor, which
\* calls parse_unary.
\* the ladder with the additive and the multiplicative operators on each
\* other's rung
level_tokens_swapped(level) ==
    CASE level = 1 -> {"OR"}
      [] level = 2 -> {"AND"}
      [] level = 3 -> {"EQ", "NEQ"}
      [] level = 4 -> {"LT", "GT", "LTE", "GTE"}
      [] level = 5 -> {"MULTIPLY", "DIVIDE"}
      [] level = 6 -> {"PLUS", "MINUS"}

level_tokens(level) ==
    CASE level = 1 -> {"OR"}
      [] level = 2 -> {"AND"}
      [] level = 3 -> {"EQ", "NEQ"}
      [] level = 4 -> {"LT", "GT", "LTE", "GTE"}
      [] level = 5 -> {"PLUS", "MINUS"}
      [] level = 6 -> {"MULTIPLY", "DIVIDE"}

\* left = BinaryOp(left, op.value, right)
binary_end(r, left, operator) == with_node(r, BinaryOp(left, operator, r.node))

parse_level(r, level) ==
    IF level > 6 THEN parse_unary(r)
    ELSE parse_level_loop(parse_level(r, level + 1), level)

parse_level_loop(r, level) ==
    IF r.err # "" \/ token(r).type \notin level_tokens(level) THEN r
    ELSE parse_level_loop(binary_end(parse_level(eat(r, token(r).type), level + 1),
                                     r.node, token(r).value),
                          level)

parse_factor(r) == parse_level(r, 6)

parse_term(r) == parse_level(r, 5)

parse_comparison(r) == parse_level(r, 4)

parse_equality(r) == parse_level(r, 3)

parse_logical_and(r) == parse_level(r, 2)

parse_logical_or(r) == parse_level(r, 1)

parse_expression(r) == parse_logical_or(r)

\* stmt = self.parse_statement(); body.append(stmt)
block_next(r, body) == IF r.err # "" THEN r ELSE parse_block(r, Append(body, r.node))

\* statement* "}": the body loop of a function, an if, a while and a for
parse_block(r, body) ==
    IF r.err # "" THEN r
    ELSE IF token(r).type = "RBRACE" THEN with_node(eat(r, "RBRACE"), body)
    ELSE block_next(parse_statement(r), body)

parse_braced(r) == parse_block(eat(r, "LBRACE"), <<>>)

\* a type name: x = self.current_token.value; self.eat(TokenType.IDENTIFIER)
type_name(r) == with_node(eat(r, "IDENTIFIER"), token(r).value)

params_next(r, params) ==
    IF r.err # "" THEN r
    ELSE IF token(r).type = "RPAREN" THEN with_node(r, params)
    ELSE parse_params(eat(r, "COMMA"), params)

param_type(r, params, param_name) ==
    params_next(eat(r, "IDENTIFIER"), Append(params, <<param_name, token(r).value>>))

\* the parameter list of a function definition, up to the ")" (not eaten)
parse_params(r, params) ==
    param_type(eat(eat(r, "IDENTIFIER"), "COLON"), params, token(r).value)

function_end(r, func_name, params, return_type) ==
    with_node(r, FunctionDef(func_name, params, return_type, r.node))

function_body(r, func_name, params) ==
    function_end(parse_braced(r), func_name, params, r.node)

function_return(r, func_name) ==
    function_body(IF r.err = "" /\ token(r).type = "ARROW"
                  THEN type_name(eat(r, "ARROW"))
                  ELSE with_node(r, NoneStr),
                  func_name, r.node)

function_params(r, func_name) ==
    function_return(eat(IF r.err = "" /\ token(r).type # "RPAREN"
                        THEN parse_params(r, <<>>)
                        ELSE with_node(r, <<>>),
                        "RPAREN"),
                    func_name)

function_name(r) ==
    function_params(eat(eat(r, "IDENTIFIER"), "LPAREN"), token(r).value)

parse_function_def(r) == function_name(eat(r, "FN"))

variable_end(r, mutable, name, var_type) ==
    with_node(r, VariableDecl(mutable, name, var_type, r.node))

variable_value(r, mutable, name) ==
    variable_end(eat_semicolon(parse_expression(eat(r, "ASSIGN"))), mutable, name, r.node)

variable_type(r, mutable, name) ==
    variable_value(IF r.err = "" /\ token(r).type = "COLON"
                   THEN type_name(eat(r, "COLON"))
                   ELSE with_node(r, NoneStr),
                   mutable, name)

variable_name(r, mutable) ==
    variable_type(eat(r, "IDENTIFIER"), mutable, token(r).value)

parse_variable_decl(r, mutable) ==
    variable_name(eat(r, IF mutable THEN "VAR" ELSE "LET"), mutable)

constant_end(r, name) == with_node(r, ConstantDecl(name, r.node))

constant_name(r) ==
    constant_end(eat_semicolon(parse_expression(eat(eat(r, "IDENTIFIER"), "ASSIGN"))),
                 token(r).value)

parse_constant_decl(r) == constant_name(eat(r, "CONST"))

if_end(r, condition, then_body) == with_node(r, IfExpr(condition, then_body, <<r.node>>))

if_else(r, condition) ==
    IF r.err = "" /\ token(r).type = "ELSE"
    THEN if_end(parse_braced(eat(r, "ELSE")), condition, r.node)
    ELSE with_node(r, IfExpr(condition, r.node, <<>>))

if_then(r) == if_else(parse_braced(r), r.node)

parse_if_expr(r) == if_then(parse_expression(eat(r, "IF")))

while_end(r, condition) == with_node(r, WhileLoop(condition, r.node))

while_body(r) == while_end(parse_braced(r), r.node)

parse_while_loop(r) == while_body(parse_expression(eat(r, "WHILE")))

for_end(r, var_name, iterable) == with_node(r, ForLoop(var_name, iterable, r.node))

for_body(r, var_name) == for_end(parse_braced(r), var_name, r.node)

for_variable(r) ==
    for_body(parse_expression(eat(eat(r, "IDENTIFIER"), "IN")), token(r).value)

parse_for_loop(r) == for_variable(eat(r, "FOR"))

return_end(r) == with_node(r, ReturnStmt(r.node))

return_value(r) ==
    return_end(eat_semicolon(IF r.err = "" /\ token(r).type \notin {"SEMICOLON", "RBRACE"}
                             THEN parse_expression(r)
                             ELSE with_node(r, NoneNode)))

parse_return_stmt(r) == return_value(eat(r, "RETURN"))

\* arms.append((pattern, result)), then a comma or the closing brace
arm_end(r, arms, pattern) ==
    IF r.err # "" THEN r
    ELSE IF token(r).type = "COMMA"
         THEN parse_arms(eat(r, "COMMA"), Append(arms, <<pattern, r.node>>))
    ELSE IF token(r).type = "RBRACE"
         THEN with_node(r, Append(arms, <<pattern, r.node>>))
    ELSE Fail(r, "Expected comma or closing brace in match expression")

arm_result(r, arms) == arm_end(parse_expression(eat(r, "ARROW")), arms, r.node)

\* the arms of a match, after "{" and up to the "}" (not eaten)
parse_arms(r, arms) ==
    IF r.err # "" THEN r
    ELSE IF token(r).type = "RBRACE" THEN with_node(r, arms)
    ELSE IF token(r).type \notin {"IDENTIFIER", "NUMBER", "STRING"}
         THEN Fail(r, "Invalid pattern in match")
    ELSE arm_result(parse_primary(r), arms)

match_end(r, expr) == with_node(r, MatchExpr(expr, r.node))

match_body(r) == match_end(eat(parse_arms(eat(r, "LBRACE"), <<>>), "RBRACE"), r.node)

parse_match_expr(r) == match_body(parse_expression(eat(r, "MATCH")))

assignment_end(r, ident_name) == with_node(r, Assignment(ident_name, r.node))

\* self.lexer.pos = next_pos; self.lexer.current_char = next_char;
\* self.current_token = Token(IDENTIFIER, ident_name, lexer.line, lexer.column):
\* the peek is undone for pos and current_char and for nothing else
restore(r, peeked) ==
    LET lexer == [peeked EXCEPT !.pos = r.p.lexer.pos,
                                !.current_char = r.p.lexer.current_char]
    IN [r EXCEPT !.p = [lexer |-> lexer,
                        current_token |-> Token("IDENTIFIER", token(r).value,
                                                lexer.line, lexer.column)]]

identifier_peeked(r, next_token) ==
    IF next_token.err # "" THEN Fail(r, next_token.err)
    ELSE IF next_token.tok.type = "ASSIGN"
         THEN assignment_end(
                  eat_semicolon(parse_expression(
                      eat(eat(restore(r, next_token.lx), "IDENTIFIER"), "ASSIGN"))),
                  token(r).value)
    ELSE eat_semicolon(parse_expression(restore(r, next_token.lx)))

\* a statement that begins with an identifier: the parser peeks one token
parse_identifier_statement(r) == identifier_peeked(r, get_next_token(r.p.lexer))

parse_statement(r) ==
    IF r.err # "" THEN r
    ELSE CASE token(r).type = "FN" -> parse_function_def(r)
           [] token(r).type = "LET" -> parse_variable_decl(r, FALSE)
           [] token(r).type = "VAR" -> parse_variable_decl(r, TRUE)
           [] token(r).type = "CONST" -> parse_constant_decl(r)
           [] token(r).type = "IF" -> parse_if_expr(r)
           [] token(r).type = "WHILE" -> parse_while_loop(r)
           [] token(r).type = "FOR" -> parse_for_loop(r)
           [] token(r).type = "RETURN" -> parse_return_stmt(r)
           [] token(r).type = "MATCH" -> parse_match_expr(r)
           [] token(r).type = "IDENTIFIER" -> parse_identifier_statement(r)
           [] OTHER -> eat_semicolon(parse_expression(r))

program_next(r, statements) ==
    IF r.err # "" THEN r ELSE parse_program_loop(r, Append(statements, r.node))

parse_program_loop(r, statements) ==
    IF r.err # "" THEN r
    ELSE IF token(r).type = "EOF" THEN with_node(r, Program(statements))
    ELSE program_next(parse_statement(r), statements)

\* one turn of the loop only
parse_first_statement(r) ==
    IF token(r).type = "EOF" THEN with_node(r, Program(<<>>))
    ELSE with_node(parse_statement(r), Program(<<>>))

parse_program(r) == parse_program_loop(r, <<>>)

\* Parser(Lexer(source)).parse_program(), as run_file does
parse_source(source) == parse_program(Parser(Lexer(source)))

(***************************************************************************)
(* BOCParser (language_project/boc_parser.py), the parser of the knowledge *)
(* dialect.  Its nodes are Python dicts ('type' names the kind) and, for   *)
(* belief, reasoning_context, intent and structured_knowledge, objects     *)
(* with a node_type.  A dict of attributes is the sequence of its          *)
(* <<name, value>> items in insertion order; Python True is the node True. *)
(***************************************************************************)
True == [type |-> "True"]

Literal(value, token_type) == [type |-> "Literal", value |-> value, token_type |-> token_type]

BOCIdentifier(value) == [type |-> "Identifier", value |-> value]

Array(items) == [type |-> "Array", items |-> items]

KeyValue(key, value) == [type |-> "KeyValue", key |-> key, value |-> value]

BOCAssignment(key, value) == [type |-> "Assignment", key |-> key, value |-> value]

Block(type, attributes, content) ==
    [type |-> type, attributes |-> attributes, content |-> content]

BOCBelief(attributes, content) ==
    [node_type |-> "BOCBelief", attributes |-> attributes, content |-> content]

BOCReasoningContext(attributes, content) ==
    [node_type |-> "BOCReasoningContext", attributes |-> attributes, content |-> content]

BOCIntent(action, attributes, content) ==
    [node_type |-> "BOCIntent", action |-> action, attributes |-> attributes,
     content |-> content]

BOCStructuredKnowledge(attributes, content) ==
    [node_type |-> "BOCStructuredKnowledge", attributes |-> attributes, content |-> content]

BOCProgram(statements) == [type |-> "BOCProgram", statements |-> statements]

\* attributes[attr_name] = attr_value
set_item(attributes, key, value) ==
    IF \E i \in DOMAIN attributes : attributes[i][1] = key
    THEN [i \in DOMAIN attributes |->
             IF attributes[i][1] = key THEN <<key, value>> ELSE attributes[i]]
    ELSE Append(attributes, <<key, value>>)

BOCParser(lexer) ==
    set_token(PR([lexer |-> lexer, current_token |-> BOCToken("EOF", NoneCh, 0, 0)],
                 NoneNode, ""),
              BOCLexer_get_next_token(lexer))

BOCParser_eat(r, token_type) ==
    IF r.err # "" THEN r
    ELSE IF token(r).type = token_type
         THEN set_token(r, BOCLexer_get_next_token(r.p.lexer))
    ELSE Fail(r, "Expected token " \o token_type \o ", got " \o token(r).type)

RECURSIVE BOCParser_parse_expression(_), array_loop(_, _), parse_attributes_loop(_, _),
          block_loop(_, _), BOCParser_parse_program_loop(_, _)

array_next(r, items) ==
    IF r.err # "" THEN r
    ELSE IF token(r).type = "RBRACKET" THEN with_node(r, Append(items, r.node))
    ELSE IF token(r).type = "COMMA"
         THEN array_loop(BOCParser_eat(r, "COMMA"), Append(items, r.node))
    ELSE Fail(r, "Expected comma or closing bracket, got " \o token(r).type)

array_loop(r, items) == array_next(BOCParser_parse_expression(r), items)

array_items(r) ==
    IF r.err # "" THEN r
    ELSE IF token(r).type # "RBRACKET" THEN array_loop(r, <<>>)
    ELSE with_node(r, <<>>)

array_end(r) == with_node(r, Array(r.node))

parse_array(r) ==
    array_end(BOCParser_eat(array_items(BOCParser_eat(r, "LBRACKET")), "RBRACKET"))

BOCParser_parse_expression(r) ==
    IF r.err # "" THEN r
    ELSE IF token(r).type = "LBRACKET" THEN parse_array(r)
    ELSE IF token(r).type \in {"STRING", "NUMBER", "BOOLEAN"}
         THEN with_node(BOCParser_eat(r, token(r).type),
                        Literal(token(r).value, token(r).type))
    ELSE IF token(r).type = "IDENTIFIER"
         THEN with_node(BOCParser_eat(r, "IDENTIFIER"), BOCIdentifier(token(r).value))
    ELSE Fail(r, "Unexpected token in expression: " \o token(r).type)

\* attributes[attr_name] = attr_value, then the next round of the loop
attribute_end(r, attributes, attr_name) ==
    IF r.err # "" THEN r
    ELSE parse_attributes_loop(r, set_item(attributes, attr_name, r.node))

attribute_value(r, attributes, attr_name) ==
    IF r.err # "" THEN r
    ELSE IF token(r).type = "LPAREN"
         THEN attribute_end(
                  BOCParser_eat(BOCParser_parse_expression(BOCParser_eat(r, "LPAREN")),
                                "RPAREN"),
                  attributes, attr_name)
    ELSE attribute_end(with_node(r, True), attributes, attr_name)

\* attr_name = self.current_token.value; self.eat(IDENTIFIER)
attribute_name(r, attributes) ==
    IF r.err # "" THEN r
    ELSE attribute_value(BOCParser_eat(r, "IDENTIFIER"), attributes, token(r).value)

parse_attributes_loop(r, attributes) ==
    IF r.err # "" THEN r
    ELSE IF token(r).type = "AT" THEN attribute_name(BOCParser_eat(r, "AT"), attributes)
    ELSE with_node(r, attributes)

parse_attributes(r) == parse_attributes_loop(r, <<>>)

key_value_end(r, content, key) ==
    IF r.err # "" THEN r ELSE block_loop(r, Append(content, KeyValue(key, r.node)))

key_value(r, content, key) == key_value_end(BOCParser_parse_expression(r), content, key)

block_item(r, content) ==
    IF r.err # "" THEN r ELSE block_loop(r, Append(content, r.node))

block_loop(r, content) ==
    IF r.err # "" THEN r
    ELSE IF token(r).type = "RBRACE" THEN with_node(BOCParser_eat(r, "RBRACE"), content)
    ELSE IF token(r).type = "IDENTIFIER"
         THEN key_value(BOCParser_eat(BOCParser_eat(r, "IDENTIFIER"), "COLON"),
                        content, token(r).value)
    ELSE block_item(BOCParser_parse_expression(r), content)

parse_block_content(r) == block_loop(BOCParser_eat(r, "LBRACE"), <<>>)

\* the dict or object built from the attributes and the content of a block
block_node(kind, action, attributes, content) ==
    CASE kind = "BELIEF" -> BOCBelief(attributes, content)
      [] kind = "REASONING_CONTEXT" -> BOCReasoningContext(attributes, content)
      [] kind = "INTENT" -> BOCIntent(action, attributes, content)
      [] kind = "STRUCTURED_KNOWLEDGE" -> BOCStructuredKnowledge(attributes, content)
      [] kind = "SHARED_STATE" -> Block("SharedState", attributes, content)
      [] kind = "SELF_CAPABILITY" -> Block("SelfCapability", attributes, content)
      [] kind = "CALCULATE_WITH_UNCERTAINTY" ->
             Block("CalculateWithUncertainty", attributes, content)

block_end(r, kind, action, attributes) ==
    with_node(r, block_node(kind, action, attributes, r.node))

\* content = self.parse_block_content()
block_content(r, kind, action) ==
    IF r.err # "" THEN r ELSE block_end(parse_block_content(r), kind, action, r.node)

\* attributes = self.parse_attributes(); content = self.parse_block_content()
attributed_block(r, kind, action) == block_content(parse_attributes(r), kind, action)

parse_shared_state(r) == attributed_block(BOCParser_eat(r, "SHARED_STATE"), "SHARED_STATE", NoneNode)

parse_self_capability(r) ==
    attributed_block(BOCParser_eat(r, "SELF_CAPABILITY"), "SELF_CAPABILITY", NoneNode)

parse_calculate_with_uncertainty(r) ==
    attributed_block(BOCParser_eat(r, "CALCULATE_WITH_UNCERTAINTY"),
                     "CALCULATE_WITH_UNCERTAINTY", NoneNode)

parse_reasoning_context(r) ==
    attributed_block(BOCParser_eat(r, "REASONING_CONTEXT"), "REASONING_CONTEXT", NoneNode)

parse_structured_knowledge(r) ==
    attributed_block(BOCParser_eat(r, "STRUCTURED_KNOWLEDGE"), "STRUCTURED_KNOWLEDGE",
                     NoneNode)

\* attributes['confidence'] = confidence_value
belief_confidence(r) == with_node(r, <<(<<"confidence", r.node>>)>>)

belief_attributes(r) ==
    IF r.err # "" THEN r
    ELSE IF token(r).type = "IDENTIFIER" /\ token(r).value = "confidence"
         THEN belief_confidence(
                  BOCParser_parse_expression(
                      BOCParser_eat(BOCParser_eat(r, "IDENTIFIER"), "ASSIGN")))
    ELSE with_node(r, <<>>)

\* a belief read like the other blocks: annotations, then the body
parse_belief_annotated(r) == attributed_block(BOCParser_eat(r, "BELIEF"), "BELIEF", NoneNode)

parse_belief(r) == block_content(belief_attributes(BOCParser_eat(r, "BELIEF")), "BELIEF", NoneNode)

\* action = {'type': action_type, 'value': action_value}
intent_attributes(r, action_type) ==
    IF r.err # "" THEN r
    ELSE attributed_block(r, "INTENT", [type |-> action_type, value |-> r.node])

intent_action(r) ==
    IF r.err # "" THEN r
    ELSE IF token(r).type = "IDENTIFIER" /\ token(r).value = "to_perform"
         THEN intent_attributes(
                  BOCParser_parse_expression(
                      BOCParser_eat(BOCParser_eat(r, "IDENTIFIER"), "COLON")),
                  token(r).value)
    ELSE attributed_block(r, "INTENT", NoneNode)

parse_intent(r) == intent_action(BOCParser_eat(r, "INTENT"))

assignment_value(r, key) == with_node(r, BOCAssignment(key, r.node))

parse_assignment(r) ==
    IF r.err # "" THEN r
    ELSE assignment_value(
             BOCParser_parse_expression(BOCParser_eat(BOCParser_eat(r, "IDENTIFIER"), "ASSIGN")),
             token(r).value)

BOCParser_parse_statement(r) ==
    IF r.err # "" THEN r
    ELSE CASE token(r).type = "BELIEF" -> parse_belief(r)
           [] token(r).type = "REASONING_CONTEXT" -> parse_reasoning_context(r)
           [] token(r).type = "INTENT" -> parse_intent(r)
           [] token(r).type = "SHARED_STATE" -> parse_shared_state(r)
           [] token(r).type = "SELF_CAPABILITY" -> parse_self_capability(r)
           [] token(r).type = "CALCULATE_WITH_UNCERTAINTY" ->
                  parse_calculate_with_uncertainty(r)
           [] token(r).type = "STRUCTURED_KNOWLEDGE" -> parse_structured_knowledge(r)
           [] token(r).type = "IDENTIFIER" -> parse_assignment(r)
           [] OTHER -> Fail(r, "Unexpected statement starting with " \o token(r).type)

BOCParser_program_next(r, statements) ==
    IF r.err # "" THEN r ELSE BOCParser_parse_program_loop(r, Append(statements, r.node))

BOCParser_parse_program_loop(r, statements) ==
    IF r.err # "" THEN r
    ELSE IF token(r).type = "EOF" THEN with_node(r, BOCProgram(statements))
    ELSE BOCParser_program_next(BOCParser_parse_statement(r), statements)

BOCParser_parse_program(r) == BOCParser_parse_program_loop(r, <<>>)

parse_boc_code(code) == BOCParser_parse_program(BOCParser(BOCLexer(code)))

(***************************************************************************)
(* Values of the interpreter: Python int, bool, str, None, float (an exact *)
(* fraction n/d in lowest terms), list, a built-in function and a          *)
(* FunctionDef node.                                                       *)
(***************************************************************************)
IntV(n) == [t |-> "int", v |-> n]
BoolV(b) == [t |-> "bool", v |-> b]
StrV(x) == [t |-> "str", v |-> x]
NoneV == [t |-> "none"]
ListV(xs) == [t |-> "list", v |-> xs]
BuiltinV(name) == [t |-> "builtin", v |-> name]
FuncV(node) == [t |-> "FunctionDef", node |-> node]

RECURSIVE gcd(_, _)
gcd(a, b) == IF b = 0 THEN a ELSE gcd(b, a % b)

abs(n) == IF n < 0 THEN -n ELSE n

FloatV(n, d) ==
    LET g == gcd(abs(n), abs(d))
        sg == IF d < 0 THEN -1 ELSE 1
    IN [t |-> "float", n |-> sg * (n \div g), d |-> sg * (d \div g)]

IsNum(v) == v.t \in {"int", "bool", "float"}
NumN(v) == CASE v.t = "int" -> v.v [] v.t = "bool" -> (IF v.v THEN 1 ELSE 0) [] OTHER -> v.n
NumD(v) == IF v.t = "float" THEN v.d ELSE 1

\* the result of an arithmetic operator: a float when an operand is one
MkNum(n, d, l, r) ==
    IF l.t = "float" \/ r.t = "float" THEN FloatV(n, d) ELSE IntV(n)

\* Python truth value
truthy(v) ==
    CASE v.t = "bool" -> v.v
      [] v.t \in {"int", "float"} -> NumN(v) # 0
      [] v.t = "str" -> v.v # ""
      [] v.t = "none" -> FALSE
      [] v.t = "list" -> Len(v.v) # 0
      [] OTHER -> TRUE

\* Python ==
RECURSIVE py_eq(_, _)
py_eq(a, b) ==
    IF IsNum(a) /\ IsNum(b) THEN NumN(a) * NumD(b) = NumN(b) * NumD(a)
    ELSE IF a.t # b.t THEN FALSE
    ELSE IF a.t = "list"
         THEN Len(a.v) = Len(b.v) /\ \A i \in 1..Len(a.v) : py_eq(a.v[i], b.v[i])
    ELSE a = b

\* the outcome of an operation: the state it leaves, its value, and the
\* exception it raised ("" when none).  "unmodelled" marks an operation of
\* Python that this model does not evaluate (string ordering, repetition).
Ok(s, v) == [s |-> s, val |-> v, err |-> ""]
Raise(s, e) == [s |-> s, val |-> NoneV, err |-> e]

py_less(a, b) == NumN(a) * NumD(b) < NumN(b) * NumD(a)

\* a division that follows IEEE 754 instead of raising: x / 0 is an infinity
divide_ieee(s, left, right) ==
    IF IsNum(left) /\ IsNum(right)
    THEN Ok(s, [t |-> "float", n |-> NumN(left) * NumD(right),
                d |-> NumD(left) * NumN(right)])
    ELSE Raise(s, "TypeError")

\* the '/' branch of visit_BinaryOp: if right == 0: raise ZeroDivisionError
divide(s, left, right) ==
    IF py_eq(right, IntV(0)) THEN Raise(s, "ZeroDivisionError")
    ELSE IF IsNum(left) /\ IsNum(right)
         THEN Ok(s, FloatV(NumN(left) * NumD(right), NumD(left) * NumN(right)))
    ELSE Raise(s, "TypeError")

\* the operator part of visit_BinaryOp (lines 96-125), on evaluated operands
binary_op(s, operator, left, right) ==
    LET nums == IsNum(left) /\ IsNum(right)
        ln == NumN(left)
        ld == NumD(left)
        rn == NumN(right)
        rd == NumD(right)
        same(tag) == left.t = tag /\ right.t = tag
        seqrep == (left.t \in {"str", "list"} /\ right.t \in {"int", "bool"})
                  \/ (right.t \in {"str", "list"} /\ left.t \in {"int", "bool"})
        compare(holds) ==
            IF nums THEN Ok(s, BoolV(holds))
            ELSE IF same("str") \/ same("list") THEN Raise(s, "unmodelled")
            ELSE Raise(s, "TypeError")
    IN CASE operator = "+" ->
              IF nums THEN Ok(s, MkNum(ln * rd + rn * ld, ld * rd, left, right))
              ELSE IF same("str") THEN Ok(s, StrV(left.v \o right.v))
              ELSE IF same("list") THEN Ok(s, ListV(left.v \o right.v))
              ELSE Raise(s, "TypeError")
         [] operator = "-" ->
              IF nums THEN Ok(s, MkNum(ln * rd - rn * ld, ld * rd, left, right))
              ELSE Raise(s, "TypeError")
         [] operator = "*" ->
              IF nums THEN Ok(s, MkNum(ln * rn, ld * rd, left, right))
              ELSE IF seqrep THEN Raise(s, "unmodelled")
              ELSE Raise(s, "TypeError")
         [] operator = "/" -> divide(s, left, right)
         [] operator = "%" ->
              IF left.t \in {"int", "bool"} /\ right.t \in {"int", "bool"}
              THEN IF rn = 0 THEN Raise(s, "ZeroDivisionError")
                   ELSE IF rn > 0 THEN Ok(s, IntV(ln % rn))
                   ELSE Raise(s, "unmodelled")
              ELSE IF nums \/ left.t = "str" THEN Raise(s, "unmodelled")
              ELSE Raise(s, "TypeError")
         [] operator = "==" -> Ok(s, BoolV(py_eq(left, right)))
         [] operator = "!=" -> Ok(s, BoolV(~py_eq(left, right)))
         [] operator = "<" -> compare(nums /\ py_less(left, right))
         [] operator = ">" -> compare(nums /\ py_less(right, left))
         [] operator = "<=" -> compare(nums /\ ~py_less(right, left))
         [] operator = ">=" -> compare(nums /\ ~py_less(left, right))
         [] operator = "&&" -> Ok(s, IF truthy(left) THEN right ELSE left)
         [] operator = "||" -> Ok(s, IF truthy(left) THEN left ELSE right)
         [] OTHER -> Raise(s, "ValueError")

(***************************************************************************)
(* Environment (clarity_interpreter.py).  The Environment objects live in  *)
(* a heap, a sequence indexed by object id; parent is an id, 0 for None.   *)
(***************************************************************************)
NoVars == [n \in {} |-> NoneV]

Environment(parent) == [vars |-> NoVars, parent |-> parent]

define(h, e, name, value) ==
    [h EXCEPT ![e].vars = (name :> value) @@ @]

\* an assignment that binds in the frame it is called on, as define does
assign_local(h, e, name, value) == [heap |-> define(h, e, name, value), err |-> ""]

\* assign returns the heap it leaves and the error it raised
RECURSIVE assign(_, _, _, _)
assign(h, e, name, value) ==
    IF name \in DOMAIN h[e].vars
    THEN [heap |-> [h EXCEPT ![e].vars[name] = value], err |-> ""]
    ELSE IF h[e].parent # 0 THEN assign(h, h[e].parent, name, value)
    ELSE [heap |-> h, err |-> "NameError"]

\* get returns the value it found and the error it raised
RECURSIVE get(_, _, _)
get(h, e, name) ==
    IF name \in DOMAIN h[e].vars THEN [val |-> h[e].vars[name], err |-> ""]
    ELSE IF h[e].parent # 0 THEN get(h, h[e].parent, name)
    ELSE [val |-> NoneV, err |-> "NameError"]

(***************************************************************************)
(* Interpreter (clarity_interpreter.py).  An evaluation state is           *)
(*   heap  the Environment objects,                                        *)
(*   env   self.global_env, the id of the current Environment,             *)
(*   log   the events observed so far (what was printed, and what the      *)
(*         visitors did: the properties below are stated on it),           *)
(*   stack the user-defined calls in progress (for the log only).          *)
(***************************************************************************)
Log(s, e) == [s EXCEPT !.log = Append(@, e)]

CallId(s) == IF Len(s.stack) = 0 THEN 0 ELSE s.stack[Len(s.stack)].id

\* the frame that binds name, walking outward from e (0 when none does)
RECURSIVE where(_, _, _)
where(h, e, name) ==
    IF e = 0 THEN 0
    ELSE IF name \in DOMAIN h[e].vars THEN e
    ELSE where(h, h[e].parent, name)

\* whether a frame from e outward, up to and including frame stop, binds name
RECURSIVE bound_upto(_, _, _, _)
bound_upto(h, e, stop, name) ==
    IF e = 0 THEN FALSE
    ELSE IF name \in DOMAIN h[e].vars THEN TRUE
    ELSE IF e = stop THEN FALSE
    ELSE bound_upto(h, h[e].parent, stop, name)

\* whether name is in the lexical scope of the call in progress: the frames
\* of the callee's body, then the frames from where the function is defined
lexically_visible(s, name) ==
    LET top == s.stack[Len(s.stack)]
    IN bound_upto(s.heap, s.env, top.frame, name) \/ where(s.heap, top.defenv, name) # 0

\* self.global_env = Environment(parent=self.global_env)
push(s) == [s EXCEPT !.heap = Append(@, Environment(s.env)), !.env = Len(s.heap) + 1]

\* a restore written after the body instead of in a finally clause
restore_on_success(r, env_before) ==
    IF r.err = "" THEN [r EXCEPT !.s.env = env_before] ELSE r

\* try: ... finally: self.global_env = env_before
finally_restore(r, env_before) == [r EXCEPT !.s.env = env_before]

_builtin_println(args, s) == Ok(Log(s, [k |-> "print", args |-> args]), NoneV)

\* math.sqrt: exact on the squares of fractions, not evaluated elsewhere
_builtin_sqrt(args, s) ==
    IF Len(args) # 1 \/ ~IsNum(args[1]) THEN Raise(s, "TypeError")
    ELSE LET n == NumN(args[1])
             d == NumD(args[1])
         IN IF n < 0 THEN Raise(s, "ValueError")
            ELSE IF \E a \in 0..n, b \in 1..d : a * a = n /\ b * b = d
                 THEN LET a == CHOOSE a \in 0..n : a * a = n
                          b == CHOOSE b \in 1..d : b * b = d
                      IN Ok(s, FloatV(a, b))
            ELSE Raise(s, "unmodelled")

\* arg_bindings = {param[0]: val for param, val in zip(params, arg_values)},
\* then define each: zip stops at the shorter list, a repeated name keeps
\* its last value
RECURSIVE bind_params(_, _, _, _, _)
bind_params(h, e, params, arg_values, i) ==
    IF i > Len(params) \/ i > Len(arg_values) THEN h
    ELSE bind_params(define(h, e, params[i][1], arg_values[i]), e, params, arg_values, i + 1)

\* a call that does not compare the two lengths
arity_unchecked(node, func_def) == TRUE

\* the arity test of visit_FunctionCall
arity_matches(node, func_def) == Len(node.args) = Len(func_def.params)

RECURSIVE visit(_, _), run_statements(_, _, _, _), run_body(_, _, _, _),
          while_loop(_, _, _), for_loop(_, _, _, _, _), eval_args(_, _, _, _),
          match_arms(_, _, _, _)

\* for stmt in stmts: result = self.visit(stmt)
run_statements(stmts, i, s, result) ==
    IF i > Len(stmts) THEN Ok(s, result)
    ELSE LET r == visit(stmts[i], Log(s, [k |-> "stmt", call |-> CallId(s)]))
         IN IF r.err # "" THEN r ELSE run_statements(stmts, i + 1, r.s, r.val)

\* the body loop of visit_FunctionCall: it returns after a ReturnStmt
run_body(stmts, i, s, result) ==
    IF i > Len(stmts) THEN Ok(s, result)
    ELSE LET r == visit(stmts[i], Log(s, [k |-> "stmt", call |-> CallId(s)]))
         IN IF r.err # "" THEN r
            ELSE IF stmts[i].node_type = "ReturnStmt" THEN r
            ELSE run_body(stmts, i + 1, r.s, r.val)

\* [self.visit(arg) for arg in node.args]; val is the list of values
eval_args(args, i, s, values) ==
    IF i > Len(args) THEN Ok(s, values)
    ELSE LET r == visit(args[i], s)
         IN IF r.err # "" THEN r ELSE eval_args(args, i + 1, r.s, Append(values, r.val))

visit_Program(node, s) == run_statements(node.statements, 1, s, NoneV)

visit_FunctionDef(node, s) ==
    Ok([s EXCEPT !.heap = define(s.heap, s.env, node.name, FuncV(node))], NoneV)

visit_VariableDecl(node, s) ==
    LET r == visit(node.value, s)
    IN IF r.err # "" THEN r
       ELSE Ok([r.s EXCEPT !.heap = define(r.s.heap, r.s.env, node.name, r.val)], r.val)

visit_ConstantDecl(node, s) ==
    LET r == visit(node.value, s)
    IN IF r.err # "" THEN r
       ELSE Ok([r.s EXCEPT !.heap = define(r.s.heap, r.s.env, node.name, r.val)], r.val)

visit_Assignment(node, s) ==
    LET r == visit(node.value, s)
    IN IF r.err # "" THEN r
       ELSE LET a == assign(r.s.heap, r.s.env, node.name, r.val)
            IN IF a.err # "" THEN Raise(r.s, a.err)
               ELSE Ok([r.s EXCEPT !.heap = a.heap], r.val)

\* `and` and `or` applied while the operands are visited: the right operand
\* is visited only when the left one has not decided the result
visit_BinaryOp_lazily(node, s) ==
    LET l == visit(node.left, s)
    IN IF l.err # "" THEN l
       ELSE IF node.operator = "&&" /\ ~truthy(l.val) THEN l
       ELSE IF node.operator = "||" /\ truthy(l.val) THEN l
       ELSE LET r == visit(node.right, l.s)
            IN IF r.err # "" THEN r
               ELSE LET b == binary_op(r.s, node.operator, l.val, r.val)
                    IN [b EXCEPT !.s = Log(@, [k |-> "binop", operator |-> node.operator,
                                               left |-> l.val, right |-> r.val,
                                               err |-> b.err, val |-> b.val])]

visit_BinaryOp(node, s) ==
    LET l == visit(node.left, s)
    IN IF l.err # "" THEN l
       ELSE LET r == visit(node.right, l.s)
            IN IF r.err # "" THEN r
               ELSE LET b == binary_op(r.s, node.operator, l.val, r.val)
                    IN [b EXCEPT !.s = Log(@, [k |-> "binop", operator |-> node.operator,
                                               left |-> l.val, right |-> r.val,
                                               err |-> b.err, val |-> b.val])]

visit_UnaryOp(node, s) ==
    LET r == visit(node.operand, s)
    IN IF r.err # "" THEN r
       ELSE IF node.operator = "-"
            THEN IF ~IsNum(r.val) THEN Raise(r.s, "TypeError")
                 ELSE IF r.val.t = "float" THEN Ok(r.s, FloatV(-r.val.n, r.val.d))
                 ELSE Ok(r.s, IntV(-NumN(r.val)))
       ELSE IF node.operator = "!" THEN Ok(r.s, BoolV(~truthy(r.val)))
       ELSE Raise(r.s, "ValueError")

visit_IfExpr(node, s) ==
    LET c == visit(node.condition, s)
    IN IF c.err # "" THEN c
       ELSE IF truthy(c.val)
            THEN finally_restore(run_statements(node.then_branch, 1, push(c.s), NoneV),
                                 c.s.env)
       ELSE IF Len(node.else_branch) > 0 /\ Len(node.else_branch[1]) > 0
            THEN finally_restore(run_statements(node.else_branch[1], 1, push(c.s), NoneV),
                                 c.s.env)
       ELSE Ok(c.s, NoneV)

while_loop(node, s, result) ==
    LET c == visit(node.condition, s)
    IN IF c.err # "" THEN c
       ELSE IF ~truthy(c.val) THEN Ok(c.s, result)
       ELSE LET b == finally_restore(run_statements(node.body, 1, push(c.s), result),
                                     c.s.env)
            IN IF b.err # "" THEN b ELSE while_loop(node, b.s, b.val)

visit_WhileLoop(node, s) == while_loop(node, s, NoneV)

for_loop(node, items, i, s, result) ==
    IF i > Len(items) THEN Ok(s, result)
    ELSE LET s1 == push(s)
             s2 == [s1 EXCEPT !.heap = define(s1.heap, s1.env, node.variable, items[i])]
             s3 == Log(s2, [k |-> "iter", variable |-> node.variable, item |-> items[i],
                            vars |-> s2.heap[s2.env].vars])
             b == finally_restore(run_statements(node.body, 1, s3, result), s.env)
         IN IF b.err # "" THEN b ELSE for_loop(node, items, i + 1, b.s, b.val)

visit_ForLoop(node, s) ==
    LET it == visit(node.iterable, s)
    IN IF it.err # "" THEN it
       ELSE IF it.val.t = "list" THEN for_loop(node, it.val.v, 1, it.s, NoneV)
       ELSE Raise(it.s, "TypeError")

visit_ReturnStmt(node, s) ==
    LET r == IF node.value # NoneNode THEN visit(node.value, s) ELSE Ok(s, NoneV)
    IN IF r.err # "" THEN r
       ELSE [r EXCEPT !.s = Log(@, [k |-> "ret", call |-> CallId(s), val |-> r.val])]

\* the user-defined branch of visit_FunctionCall (lines 216-239)
call_user(node, func_def, defenv, s) ==
    IF ~arity_matches(node, func_def)
    THEN Raise(Log(s, [k |-> "arity", name |-> node.name]), "ValueError")
    ELSE LET a == eval_args(node.args, 1, s, <<>>)
         IN IF a.err # "" THEN a
            ELSE LET old_env == a.s.env
                     s1 == push(a.s)
                     s2 == [s1 EXCEPT !.heap = bind_params(s1.heap, s1.env,
                                                           func_def.params, a.val, 1)]
                     id == Len(s2.log) + 1
                     s3 == [Log(s2, [k |-> "call", id |-> id, name |-> node.name,
                                     params |-> func_def.params, args |-> a.val,
                                     vars |-> s2.heap[s2.env].vars,
                                     fresh |-> s2.env > Len(a.s.heap)])
                            EXCEPT !.stack = Append(@, [id |-> id, frame |-> s2.env,
                                                        defenv |-> defenv])]
                     b == run_body(func_def.body, 1, s3, NoneV)
                     done == [b EXCEPT !.s = [Log(@, [k |-> "exit", call |-> id,
                                                      err |-> b.err, val |-> b.val])
                                              EXCEPT !.stack = a.s.stack]]
                 IN finally_restore(done, old_env)

visit_FunctionCall(node, s) ==
    LET f == get(s.heap, s.env, node.name)
    IN IF f.err # "" THEN Raise(s, f.err)
       ELSE IF f.val.t = "builtin"
            THEN LET a == eval_args(node.args, 1, s, <<>>)
                 IN IF a.err # "" THEN a
                    ELSE IF f.val.v = "println" THEN _builtin_println(a.val, a.s)
                    ELSE _builtin_sqrt(a.val, a.s)
       ELSE IF f.val.t = "FunctionDef"
            THEN call_user(node, f.val.node, where(s.heap, s.env, node.name), s)
       ELSE Raise(s, "NameError")

visit_Identifier(node, s) ==
    LET g == get(s.heap, s.env, node.name)
        s1 == IF Len(s.stack) = 0 THEN s
              ELSE Log(s, [k |-> "read", name |-> node.name, call |-> CallId(s),
                           lexical |-> lexically_visible(s, node.name), err |-> g.err])
    IN IF g.err # "" THEN Raise(s1, g.err) ELSE Ok(s1, g.val)

visit_Number(node, s) == Ok(s, IntV(node.value))

visit_String(node, s) == Ok(s, StrV(node.value))

visit_Boolean(node, s) == Ok(s, BoolV(node.value))

\* an arm test that only knows literal patterns
arm_matches_literal_only(pattern, matched_value, pattern_value) ==
    /\ pattern.node_type \in {"Number", "String", "Boolean"}
    /\ py_eq(matched_value, pattern_value)

\* the test of one arm: a literal pattern by ==, an Identifier pattern always
arm_matches(pattern, matched_value, pattern_value) ==
    IF pattern.node_type \in {"Number", "String", "Boolean"}
    THEN py_eq(matched_value, pattern_value)
    ELSE pattern.node_type = "Identifier"

\* the arm loop of visit_MatchExpr, from arm i on
match_arms(arms, i, s, matched_value) ==
    IF i > Len(arms) THEN Raise(s, "ValueError")
    ELSE LET pattern == arms[i][1]
             result_expr == arms[i][2]
             s1 == Log(s, [k |-> "test", arm |-> i])
             pv == IF pattern.node_type \in {"Number", "String", "Boolean"}
                   THEN visit(pattern, s1)
                   ELSE Ok(s1, NoneV)
         IN IF arm_matches(pattern, matched_value, pv.val)
            THEN visit(result_expr, Log(pv.s, [k |-> "arm", arm |-> i]))
            ELSE match_arms(arms, i + 1, pv.s, matched_value)

visit_MatchExpr(node, s) ==
    LET m == visit(node.expr, s)
    IN IF m.err # "" THEN m
       ELSE match_arms(node.arms, 1, Log(m.s, [k |-> "scrutinee", val |-> m.val]), m.val)

generic_visit(node, s) == Raise(s, "Exception")

Scoped == {"IfExpr", "WhileLoop", "ForLoop", "FunctionCall"}

visit(node, s) ==
    LET t == node.node_type
        r == CASE t = "Program" -> visit_Program(node, s)
               [] t = "FunctionDef" -> visit_FunctionDef(node, s)
               [] t = "VariableDecl" -> visit_VariableDecl(node, s)
               [] t = "ConstantDecl" -> visit_ConstantDecl(node, s)
               [] t = "Assignment" -> visit_Assignment(node, s)
               [] t = "BinaryOp" -> visit_BinaryOp(node, s)
               [] t = "UnaryOp" -> visit_UnaryOp(node, s)
               [] t = "IfExpr" -> visit_IfExpr(node, s)
               [] t = "WhileLoop" -> visit_WhileLoop(node, s)
               [] t = "ForLoop" -> visit_ForLoop(node, s)
               [] t = "ReturnStmt" -> visit_ReturnStmt(node, s)
               [] t = "FunctionCall" -> visit_FunctionCall(node, s)
               [] t = "Identifier" -> visit_Identifier(node, s)
               [] t = "Number" -> visit_Number(node, s)
               [] t = "String" -> visit_String(node, s)
               [] t = "Boolean" -> visit_Boolean(node, s)
               [] t = "MatchExpr" -> visit_MatchExpr(node, s)
               [] OTHER -> generic_visit(node, s)
    IN IF t \in Scoped
       THEN [r EXCEPT !.s = Log(@, [k |-> "scope", kind |-> t, before |-> s.env,
                                    after |-> r.s.env, err |-> r.err,
                                    pushed |-> Len(r.s.heap) - Len(s.heap)])]
       ELSE r

\* Interpreter.__init__: the global environment with the built-in functions
Interpreter ==
    [heap |-> <<[vars |-> ("println" :> BuiltinV("println")) @@ ("sqrt" :> BuiltinV("sqrt")),
                 parent |-> 0]>>,
     env |-> 1]

interpret(ast, h, e) == visit(ast, [heap |-> h, env |-> e, log |-> <<>>, stack |-> <<>>])

(***************************************************************************)
(* The interpreter as a state machine: one Interpreter instance, given     *)
(* programs to interpret one after the other.                              *)
(***************************************************************************)
MaxInt == 5

ForText == "for x in [1, 2, 3] { println(x); }"

ForXsText == "for i in xs { println(i); }"

AddText == "let r = add(2, 3); add(1)"

UntypedAddText == "fn add(a, b) { return a + b; } add(2, 3)"

CatchAllFirstText == "match x { n => p(20), 1 => p(30) }"

Prelude ==
    "fn add(a: Int, b: Int) -> Int { return a + b; } "
    \o "fn f(a: Bool) -> Int { if a { return 1; } return 2; } "
    \o "fn g() -> Int { return t; } "
    \o "fn p(v: Int) -> Int { println(v); return v; } "
    \o "fn dup(a: Int, a: Int) -> Int { return a; } "
    \o "fn deep() { for i in xs { while true { if i > 1 { zz } i = i + 1 } } }"

\* p(left) && right and p(left) || right, the right operand a call that
\* prints or a name that is not bound
LogicalForms ==
    << [left |-> "0", operator |-> "&&", right |-> "p(2)"],
       [left |-> "1", operator |-> "&&", right |-> "p(2)"],
       [left |-> "0", operator |-> "||", right |-> "p(2)"],
       [left |-> "1", operator |-> "||", right |-> "p(2)"],
       [left |-> "0", operator |-> "&&", right |-> "zz"],
       [left |-> "1", operator |-> "&&", right |-> "zz"],
       [left |-> "0", operator |-> "||", right |-> "zz"],
       [left |-> "1", operator |-> "||", right |-> "zz"] >>

LogicalText(form) == "p(" \o form.left \o ") " \o form.operator \o " " \o form.right

Sources ==
    << Prelude,
       "var x = 0;",
       "x = x + 1;",
       "let t = 1;",
       AddText,
       UntypedAddText,
       "dup(1, 2)",
       "add(1)",
       "add(1, 2, x)",
       "f(true)",
       "f(false)",
       "g()",
       "if true { let t = 5; g() }",
       "deep()",
       "if x > 0 { let y = 1; y = zz; }",
       "while x < 2 { x = x + 1; if x > 1 { zz } }",
       "match x { 1 => p(10), n => p(20), 1 => p(30) }",
       CatchAllFirstText,
       "match p(x) { 0 => p(10), \"a\" => p(20), 2 => p(30) }",
       "10 / x",
       "x / (x - 1)",
       "p(x) / (0 * p(1))",
       "1 / (x > 0)",
       ForXsText,
       "for i in xs { if i > 1 { println(w) } let w = i; }",
       ForText >>
    \o [i \in DOMAIN LogicalForms |-> LogicalText(LogicalForms[i])]

Parsed == [i \in 1..Len(Sources) |-> parse_source(Sources[i])]

Xs == ListV(<<IntV(1), IntV(2), IntV(3)>>)

\* the chain of Environment objects from the root to e: the objects that
\* stay reachable when an operation ends
RECURSIVE path(_, _)
path(h, e) == IF e = 0 THEN <<>> ELSE Append(path(h, h[e].parent), e)

collect(h, e) ==
    LET ids == path(h, e)
    IN [i \in 1..Len(ids) |-> [vars |-> h[ids[i]].vars, parent |-> i - 1]]

InBounds(h) ==
    \A n \in DOMAIN h[1].vars :
        h[1].vars[n].t = "int" => abs(h[1].vars[n].v) <= MaxInt

Idle == [op |-> "none", src |-> 0, perr |-> "", err |-> "", val |-> NoneV,
         log |-> <<>>, same |-> TRUE]

\* no translation yet: no proof stored, nothing held, no call made
NoVerdict == [op |-> "none"]

NoLexer == [class |-> "none"]

LexerIdle == held_lexer = NoLexer

NoInstances == instances = <<>>

TranslatorIdle ==
    /\ translation_proofs = <<>>
    /\ held = <<>>
    /\ verdict = NoVerdict

Init ==
    /\ heap = Interpreter.heap
    /\ global_env = Interpreter.env
    /\ last = Idle
    /\ TranslatorIdle
    /\ NoInstances
    /\ LexerIdle

\* the interpreter after a run: the Environment objects that are still
\* reachable from its current one, and the outcome of the run
finish(i, r, h) ==
    /\ r.err # "unmodelled"
    /\ InBounds(h)
    /\ heap' = h
    /\ global_env' = Len(h)
    /\ last' = [op |-> "interpret", src |-> i, perr |-> "", err |-> r.err,
                val |-> r.val, log |-> r.s.log,
                same |-> (h = heap /\ Len(h) = global_env)]

run(i, r) == finish(i, r, collect(r.s.heap, r.s.env))

\* ast = parser.parse_program(); interpreter.interpret(ast), as run_file does
\* but on an interpreter that lives on; a parse error leaves it untouched
run_source(i, parsed) ==
    IF parsed.err # ""
    THEN /\ last' = [Idle EXCEPT !.op = "interpret", !.src = i, !.perr = parsed.err]
         /\ UNCHANGED <<heap, global_env>>
    ELSE run(i, interpret(parsed.node, heap, global_env))

Interpret(i) == run_source(i, Parsed[i])

\* interpreter.global_env.define("xs", [1, 2, 3]): the embedding program binds
\* a list, as Interpreter.__init__ binds the built-in functions
DefineGlobal ==
    /\ global_env = 1
    /\ "xs" \notin DOMAIN heap[1].vars
    /\ heap' = define(heap, global_env, "xs", Xs)
    /\ last' = [Idle EXCEPT !.op = "define"]
    /\ UNCHANGED global_env

Next ==
    \/ \E i \in 1..Len(Sources) : Interpret(i) /\ UNCHANGED <<translation_proofs, held, verdict, held_lexer, instances>>
    \/ DefineGlobal /\ UNCHANGED <<translation_proofs, held, verdict, held_lexer, instances>>

Spec == Init /\ [][Next]_vars

(***************************************************************************)
(* Environment on its own: the chain of frames that the interpreter builds, *)
(* each new frame a child of the current one, with define, assign and get  *)
(* called on any frame of the chain.                                       *)
(***************************************************************************)
MaxFrames == 3

Names == {"x", "y"}

Values == {IntV(1), IntV(2)}

EnvIdle == [op |-> "none", e |-> 0, name |-> "", value |-> NoneV, err |-> "",
            val |-> NoneV, before |-> <<>>]

InitEnv ==
    /\ heap = <<Environment(0)>>
    /\ global_env = 1
    /\ last = EnvIdle
    /\ TranslatorIdle
    /\ NoInstances
    /\ LexerIdle

\* self.global_env = Environment(parent=self.global_env)
EnvNew ==
    /\ Len(heap) < MaxFrames
    /\ heap' = Append(heap, Environment(global_env))
    /\ global_env' = Len(heap) + 1
    /\ last' = [EnvIdle EXCEPT !.op = "new", !.e = Len(heap) + 1, !.before = heap]

\* e.define(name, value)
EnvDefine(e, name, value) ==
    /\ heap' = define(heap, e, name, value)
    /\ last' = [EnvIdle EXCEPT !.op = "define", !.e = e, !.name = name,
                               !.value = value, !.before = heap]

\* e.assign(name, value), r what the call left
assigned(e, name, value, r) ==
    /\ heap' = r.heap
    /\ last' = [EnvIdle EXCEPT !.op = "assign", !.e = e, !.name = name,
                               !.value = value, !.err = r.err, !.before = heap]

EnvAssign(e, name, value) == assigned(e, name, value, assign(heap, e, name, value))

\* e.get(name), r what the call returned
got(e, name, r) ==
    /\ heap' = heap
    /\ last' = [EnvIdle EXCEPT !.op = "get", !.e = e, !.name = name,
                               !.err = r.err, !.val = r.val, !.before = heap]

EnvGet(e, name) == got(e, name, get(heap, e, name))

NextEnv ==
    \/ EnvNew /\ UNCHANGED <<translation_proofs, held, verdict, held_lexer, instances>>
    \/ \E e \in 1..Len(heap), name \in Names, value \in Values :
           EnvDefine(e, name, value) /\ UNCHANGED <<global_env, translation_proofs, held, verdict, held_lexer, instances>>
    \/ \E e \in 1..Len(heap), name \in Names, value \in Values :
           EnvAssign(e, name, value) /\ UNCHANGED <<global_env, translation_proofs, held, verdict, held_lexer, instances>>
    \/ \E e \in 1..Len(heap), name \in Names :
           EnvGet(e, name) /\ UNCHANGED <<global_env, translation_proofs, held, verdict, held_lexer, instances>>

SpecEnv == InitEnv /\ [][NextEnv]_vars

(***************************************************************************)
(* Python values as the translator (language_project/translator.py) builds *)
(* them into a document: str, int and float (by their JSON text), bool,    *)
(* None, list or tuple, and dict, a sequence of <<key, value>> pairs in     *)
(* insertion order.                                                        *)
(***************************************************************************)
JStr(x) == [j |-> "str", v |-> x]

JNum(text) == [j |-> "num", v |-> text]

JBool(b) == [j |-> "bool", v |-> b]

JNull == [j |-> "null"]

JList(xs) == [j |-> "list", v |-> xs]

JDict(pairs) == [j |-> "dict", v |-> pairs]

\* str(n) of a natural number
RECURSIVE str_of_int(_)
str_of_int(n) ==
    IF n < 10 THEN CharAt(Digits, n)
    ELSE str_of_int(n \div 10) \o CharAt(Digits, n % 10)

\* the order of str on the characters of the keys: by code point
CodePoints == Digits \o UpperCase \o "_" \o LowerCase

ord == [c \in {CharAt(CodePoints, i) : i \in 0..(Len(CodePoints) - 1)} |-> IndexIn(c, CodePoints)]

\* a < b on str: the first position where they differ decides, a proper
\* prefix is smaller
RECURSIVE less_from(_, _, _)
less_from(a, b, i) ==
    IF i >= Len(b) THEN FALSE
    ELSE IF i >= Len(a) THEN TRUE
    ELSE IF CharAt(a, i) = CharAt(b, i) THEN less_from(a, b, i + 1)
    ELSE ord[CharAt(a, i)] < ord[CharAt(b, i)]

str_less(a, b) == less_from(a, b, 0)

\* sort_keys=True: the pairs of a dict by key
RECURSIVE insert_sorted(_, _)
insert_sorted(sorted, pair) ==
    IF sorted = <<>> THEN <<pair>>
    ELSE IF str_less(pair[1], sorted[1][1]) THEN <<pair>> \o sorted
    ELSE <<sorted[1]>> \o insert_sorted(Tail(sorted), pair)

RECURSIVE sort_keys(_)
sort_keys(pairs) ==
    IF pairs = <<>> THEN <<>>
    ELSE insert_sorted(sort_keys(SubSeq(pairs, 1, Len(pairs) - 1)), pairs[Len(pairs)])

\* the JSON escapes of a string: a quote and a backslash get a backslash
RECURSIVE escape_from(_, _)
escape_from(x, i) ==
    IF i >= Len(x) THEN ""
    ELSE (IF CharAt(x, i) \in {"\"", "\\"} THEN "\\" ELSE "") \o CharAt(x, i)
         \o escape_from(x, i + 1)

escape(x) ==
    IF \A i \in 0..(Len(x) - 1) : CharAt(x, i) \notin {"\"", "\\"} THEN x
    ELSE escape_from(x, 0)

\* json.dumps(value, sort_keys=True)
RECURSIVE dumps(_), dumps_items(_, _), dumps_pairs(_, _)
dumps(value) ==
    CASE value.j = "str" -> "\"" \o escape(value.v) \o "\""
      [] value.j = "num" -> value.v
      [] value.j = "bool" -> (IF value.v THEN "true" ELSE "false")
      [] value.j = "null" -> "null"
      [] value.j = "list" -> "[" \o dumps_items(value.v, 1) \o "]"
      [] value.j = "dict" -> "{" \o dumps_pairs(sort_keys(value.v), 1) \o "}"

dumps_items(items, i) ==
    IF i > Len(items) THEN ""
    ELSE (IF i > 1 THEN ", " ELSE "") \o dumps(items[i]) \o dumps_items(items, i + 1)

dumps_pairs(pairs, i) ==
    IF i > Len(pairs) THEN ""
    ELSE (IF i > 1 THEN ", " ELSE "") \o "\"" \o escape(pairs[i][1]) \o "\": "
         \o dumps(pairs[i][2]) \o dumps_pairs(pairs, i + 1)

\* key in d, d[key] and d.get(key, default) of a dict
has(d, key) == d.j = "dict" /\ \E i \in DOMAIN d.v : d.v[i][1] = key

at(d, key) == d.v[CHOOSE i \in DOMAIN d.v : d.v[i][1] = key][2]

get_or(d, key, default) == IF has(d, key) THEN at(d, key) ELSE default

\* hashlib.sha256(text.encode()).hexdigest(), taken as injective: the digest
\* stands for the text it was computed from
sha256(text) == "sha256<" \o text \o ">"

(***************************************************************************)
(* ClarityToBOCTranslator (language_project/translator.py).  now stands    *)
(* for datetime.now().isoformat(); one call reads one time.                *)
(***************************************************************************)
JStrs(xs) == JList([i \in DOMAIN xs |-> JStr(xs[i])])

version == "2.0-enhanced"

\* str(node) of an object without __str__ (its address is left out), and
\* str(None)
object_str(node) ==
    IF node = NoneNode THEN "None"
    ELSE "<clarity_parser." \o node.node_type \o " object>"

\* str(type(node))
type_str(node) == "<class 'clarity_parser." \o node.node_type \o "'>"

\* getattr(node, 'line', 1): no node of the parser has a line
provenance(now) ==
    JDict(<< <<"original_line", JNum("1")>>,
             <<"translated_by", JStr("clarity_to_boc_translator_v2")>>,
             <<"timestamp", JStr(now)>> >>)

traceability ==
    JDict(<< <<"can_be_traced_back_to_source", JBool(TRUE)>>,
             <<"source_mapping_available", JBool(TRUE)>>,
             <<"debugging_support_level", JStr("full")>> >>)

_identify_invariants ==
    JStrs(<<"function_signature", "return_type_consistency", "side_effect_behavior">>)

_identify_potential_shifts ==
    JStrs(<<"floating_point_precision", "optimization_effects", "abstraction_leakage">>)

_infer_parameter_constraints(param_name, type) ==
    JDict(<< <<"type", JStr(type)>> >>
          \o (IF type = "Int" THEN << <<"range", JStr("machine_integer_range")>> >>
              ELSE IF type = "Float"
                   THEN << <<"range", JStr("floating_point_range")>>,
                           <<"precision", JStr("implementation_dependent")>> >>
              ELSE <<>>))

_extract_logic_flow == JStr("sequential_execution_with_conditionals")

_analyze_dependencies ==
    JDict(<< <<"input_dependent_vars", JList(<<>>)>>, <<"computed_vars", JList(<<>>)>> >>)

_identify_side_effects == JStrs(<<"none_identified_static_analysis">>)

_extract_assumptions == JStrs(<<"inputs_are_valid", "system_resources_available">>)

_extract_implications == JStrs(<<"side_effects_possible", "resource_utilization_expected">>)

translate_function_def(clarity_func_ast, now) ==
    JDict(<<
      <<"structured_knowledge", JDict(<<
          <<"type", JStr("function_definition")>>,
          <<"name", JStr(clarity_func_ast.name)>>,
          <<"parameters",
            JList([i \in DOMAIN clarity_func_ast.params |->
                JDict(<< <<"name", JStr(clarity_func_ast.params[i][1])>>,
                         <<"type", JStr(clarity_func_ast.params[i][2])>>,
                         <<"confidence", JNum("1.0")>>,
                         <<"constraints",
                           _infer_parameter_constraints(clarity_func_ast.params[i][1],
                                                        clarity_func_ast.params[i][2])>> >>)])>>,
          <<"return_type", IF clarity_func_ast.return_type = NoneStr THEN JNull
                           ELSE JStr(clarity_func_ast.return_type)>>,
          <<"confidence", JNum("1.0")>>,
          <<"source", JStr("human_contributed")>>,
          <<"original_syntax", JStr("clarity")>>,
          <<"semantic_preservation_level", JStr("complete")>>,
          <<"translation_metadata", JDict(<<
              <<"preserved_invariants", _identify_invariants>>,
              <<"potential_semantic_shifts", _identify_potential_shifts>>,
              <<"validation_requirements", JStrs(<<"type_safety", "side_effect_tracking">>)>> >>)>>
        >>)>>,
      <<"provenance", JDict(<<
          <<"original_lines", JList(<<JNum("1"), JNum("1")>>)>>,
          <<"translated_by", JStr("clarity_to_boc_translator_v2")>>,
          <<"timestamp", JStr(now)>>,
          <<"semantic_equivalence_verified", JBool(TRUE)>> >>)>>,
      <<"reasoning_context", JDict(<<
          <<"assumptions", _extract_assumptions>>,
          <<"implications", _extract_implications>>,
          <<"confidence_threshold", JNum("0.7")>>,
          <<"debugging_info", JDict(<<
              <<"original_logic_flow", _extract_logic_flow>>,
              <<"variable_dependencies", _analyze_dependencies>>,
              <<"side_effects", _identify_side_effects>> >>)>> >>)>>,
      <<"intent", JDict(<<
          <<"to_perform", JStr("execute_function_" \o clarity_func_ast.name)>>,
          <<"parameters",
            JList([i \in DOMAIN clarity_func_ast.params |-> JStrs(clarity_func_ast.params[i])])>>,
          <<"execution_context", JStr("runtime_call")>>,
          <<"priority", JStr("normal")>>,
          <<"traceability", traceability>> >>)>>
    >>)

\* value_ast.value where the node has one, str(value_ast) otherwise; of the
\* expressions only the literals have a value
_translate_value(value_ast) ==
    CASE value_ast.node_type = "Number" -> JNum(str_of_int(value_ast.value))
      [] value_ast.node_type = "String" -> JStr(value_ast.value)
      [] value_ast.node_type = "Boolean" -> JBool(value_ast.value)
      [] OTHER -> JStr(object_str(value_ast))

translate_variable_declaration(clarity_var_ast, now) ==
    JDict(<<
      <<"belief", JDict(<<
          <<"fact", JStr("variable_" \o clarity_var_ast.name \o "_initialized")>>,
          <<"value", _translate_value(clarity_var_ast.value)>>,
          <<"confidence", JNum("0.95")>>,
          <<"source", JStr("program_initialization")>>,
          <<"certainty_decay", JStr(IF clarity_var_ast.mutable THEN "none" ELSE "over_time")>>,
          <<"semantic_metadata", JDict(<<
              <<"preservation_guarantee", JStr("exact")>>,
              <<"conversion_path", JStr("direct_mapping")>>,
              <<"validation_checkpoints",
                JStrs(<<"initialization", "assignment", "access">>)>> >>)>> >>)>>,
      <<"provenance", provenance(now)>>
    >>)

_translate_expression(expr_ast) == JStr(object_str(expr_ast))

_translate_statements(stmt_list, now) ==
    JList([i \in DOMAIN stmt_list |->
        JDict(<< <<"statement_type", JStr(type_str(stmt_list[i]))>>,
                 <<"content", JStr(object_str(stmt_list[i]))>>,
                 <<"provenance", provenance(now)>> >>)])

translate_conditional(clarity_if_ast, now) ==
    JDict(<<
      <<"reasoning_context", JDict(<<
          <<"condition", _translate_expression(clarity_if_ast.condition)>>,
          <<"branches", JDict(<<
              <<"then", _translate_statements(clarity_if_ast.then_branch, now)>>,
              <<"else", IF Len(clarity_if_ast.else_branch) > 0
                           /\ Len(clarity_if_ast.else_branch[1]) > 0
                        THEN _translate_statements(clarity_if_ast.else_branch[1], now)
                        ELSE JList(<<>>)>> >>)>>,
          <<"confidence_threshold", JNum("0.5")>>,
          <<"debugging_info", JDict(<<
              <<"branch_coverage", JDict(<< <<"then_visited", JBool(FALSE)>>,
                                            <<"else_visited", JBool(FALSE)>> >>)>>,
              <<"condition_evaluation_trace", JList(<<>>)>>,
              <<"decision_factors", JStrs(<<"condition_value", "runtime_context">>)>> >>)>> >>)>>,
      <<"provenance", provenance(now)>>
    >>)

\* the component of a statement that is no function, variable or conditional
generic_belief(stmt, now) ==
    JDict(<<
      <<"belief", JDict(<<
          <<"fact", JStr("program_contains_" \o stmt.node_type)>>,
          <<"confidence", JNum("0.8")>>,
          <<"source", JStr("program_structure")>>,
          <<"semantic_metadata", JDict(<<
              <<"preservation_guarantee", JStr("structural")>>,
              <<"conversion_path", JStr("direct_mapping")>>,
              <<"validation_checkpoints", JStrs(<<"parsing", "validation">>)>> >>)>> >>)>>,
      <<"provenance", provenance(now)>>
    >>)

\* the loop body without its branch for conditionals
translate_component_without_conditional(stmt, now) ==
    CASE stmt.node_type = "FunctionDef" -> translate_function_def(stmt, now)
      [] stmt.node_type = "VariableDecl" -> translate_variable_declaration(stmt, now)
      [] OTHER -> generic_belief(stmt, now)

translate_component(stmt, now) ==
    CASE stmt.node_type = "FunctionDef" -> translate_function_def(stmt, now)
      [] stmt.node_type = "VariableDecl" -> translate_variable_declaration(stmt, now)
      [] stmt.node_type = "IfExpr" -> translate_conditional(stmt, now)
      [] OTHER -> generic_belief(stmt, now)

translate_entire_program(clarity_ast, now) ==
    JDict(<<
      <<"structured_knowledge", JDict(<<
          <<"type", JStr("program")>>,
          <<"components",
            JList([i \in DOMAIN clarity_ast.statements |->
                       translate_component(clarity_ast.statements[i], now)])>>,
          <<"provenance", JDict(<<
              <<"author", JStr("human_contributor")>>,
              <<"translation_tool", JStr("clarity_to_boc_translator_v2")>>,
              <<"translator_version", JStr(version)>>,
              <<"timestamp", JStr(now)>>,
              <<"semantic_equivalence_verified", JBool(TRUE)>>,
              <<"trust_boundary_validation", JDict(<<
                  <<"verification_method", JStr("proof_carrying_code")>>,
                  <<"verification_passed", JBool(TRUE)>>,
                  <<"verification_timestamp", JStr(now)>> >>)>> >>)>> >>)>>,
      <<"intent", JDict(<<
          <<"to_perform", JStr("execute_program")>>,
          <<"confidence_level", JNum("0.9")>>,
          <<"deadline", JStr("indefinite")>>,
          <<"traceability", traceability>> >>)>>,
      <<"versioning_info", JDict(<<
          <<"surface_layer_version", JStr("unspecified")>>,
          <<"deep_layer_version", JStr(version)>>,
          <<"compatibility_matrix", JDict(<<
              <<"compatible_deep_versions", JStrs(<<"2.x">>)>>,
              <<"minimum_surface_version", JStr("1.0")>> >>)>> >>)>>
    >>)

(***************************************************************************)
(* TranslationProof (language_project/translator.py).                      *)
(***************************************************************************)
_generate_proof_hash(source_hash, target_hash, translator_version, timestamp) ==
    sha256(source_hash \o target_hash \o translator_version \o timestamp)

\* TranslationProof.__init__
TranslationProof(clarity_source, boc_target, translator_version, now) ==
    [clarity_source |-> clarity_source,
     boc_target |-> boc_target,
     translator_version |-> translator_version,
     timestamp |-> now,
     source_hash |-> sha256(clarity_source),
     target_hash |-> sha256(dumps(boc_target)),
     proof_hash |-> _generate_proof_hash(sha256(clarity_source), sha256(dumps(boc_target)),
                                         translator_version, now)]

\* a verification that recomputes the hash of the source only
verify_source_only(self, clarity_source, boc_target) ==
    sha256(clarity_source) = self.source_hash

verify_proof(self, clarity_source, boc_target) ==
    /\ _generate_proof_hash(sha256(clarity_source), sha256(dumps(boc_target)),
                            self.translator_version, self.timestamp) = self.proof_hash
    /\ sha256(clarity_source) = self.source_hash

\* translate_with_provenance, given the document it built: the proof it
\* appends to translation_proofs and the result it returns (the source map
\* is empty: _walk_clarity_ast adds no mapping)
with_provenance(boc_representation, proof, now) ==
    [boc_representation |-> boc_representation,
     proof |-> proof,
     translator_version |-> version,
     timestamp |-> now]

translate_with_provenance(clarity_ast, clarity_source_code, now) ==
    with_provenance(translate_entire_program(clarity_ast, now),
                    TranslationProof(clarity_source_code,
                                     translate_entire_program(clarity_ast, now), version, now),
                    now)

(***************************************************************************)
(* BOCtoClarityTranslator (language_project/translator.py).                *)
(***************************************************************************)
\* str(value) of a str, int, float, bool or None
py_str(value) ==
    CASE value.j = "bool" -> (IF value.v THEN "True" ELSE "False")
      [] value.j = "null" -> "None"
      [] value.j \in {"str", "num"} -> value.v
      [] OTHER -> "<container>"

\* text.startswith(prefix) and part in text
startswith(text, prefix) ==
    Len(text) >= Len(prefix) /\ SubSeq(text, 1, Len(prefix)) = prefix

contains(text, part) ==
    \E i \in 1..(Len(text) - Len(part) + 1) : SubSeq(text, i, i + Len(part) - 1) = part

\* ", ".join of the "name: type" of the parameters from i on
RECURSIVE param_str(_, _)
param_str(parameters, i) ==
    IF i > Len(parameters) THEN ""
    ELSE (IF i > 1 THEN ", " ELSE "") \o py_str(at(parameters[i], "name")) \o ": "
         \o py_str(at(parameters[i], "type")) \o param_str(parameters, i + 1)

\* func_def is the structured_knowledge of a component; the function reads
\* func_def['structured_knowledge'], which raises KeyError when func_def has
\* no such key
_generate_function_code(func_def, index) ==
    IF ~has(func_def, "structured_knowledge") THEN [text |-> "", err |-> "KeyError"]
    ELSE [text |->
            "// Function #" \o str_of_int(index) \o " - BOC Origin: "
              \o py_str(get_or(get_or(func_def, "provenance", JDict(<<>>)),
                               "original_lines", JStr("unknown"))) \o "\n"
            \o "// Semantic preservation: "
              \o py_str(at(at(func_def, "structured_knowledge"), "semantic_preservation_level"))
              \o "\n"
            \o "// Confidence: "
              \o py_str(at(at(func_def, "structured_knowledge"), "confidence")) \o "\n"
            \o "fn " \o py_str(at(at(func_def, "structured_knowledge"), "name"))
              \o "(" \o param_str(at(func_def, "parameters").v, 1) \o ")"
              \o (IF at(func_def, "return_type").j = "null" THEN ""
                  ELSE " -> " \o py_str(at(func_def, "return_type")))
              \o " {\n"
            \o "    // TODO: Implement function logic\n"
            \o "    // Based on reasoning context and intent in original BOC\n"
            \o "    // Debugging trace available via provenance information\n"
            \o "}",
          err |-> ""]

_generate_variable_declaration(belief, index) ==
    IF startswith(py_str(at(belief, "fact")), "variable_")
       /\ contains(py_str(at(belief, "fact")), "_initialized")
    THEN "// [" \o str_of_int(index) \o "] " \o py_str(at(belief, "confidence"))
         \o " confidence that " \o py_str(at(belief, "fact")) \o " = "
         \o py_str(get_or(belief, "value", JStr("unknown")))
    ELSE "// [" \o str_of_int(index) \o "] Belief: " \o py_str(at(belief, "fact"))
         \o " (confidence: " \o py_str(at(belief, "confidence")) \o ")"

\* the loop of translate_to_clarity over the components from idx on: the
\* lines so far, whether an item that is no str (the list that
\* _generate_conditional_code returns) was appended, and the error raised
function_code(r, code) ==
    IF code.err # "" THEN [r EXCEPT !.err = code.err]
    ELSE [r EXCEPT !.lines = Append(@, code.text)]

RECURSIVE generate(_, _, _)
generate(components, idx, r) ==
    IF r.err # "" \/ idx >= Len(components) THEN r
    ELSE IF has(components[idx + 1], "structured_knowledge")
            /\ py_str(at(at(components[idx + 1], "structured_knowledge"), "type"))
                 = "function_definition"
         THEN generate(components, idx + 1,
                       function_code(r, _generate_function_code(
                            at(components[idx + 1], "structured_knowledge"), idx)))
    ELSE IF has(components[idx + 1], "belief")
         THEN generate(components, idx + 1,
                       [r EXCEPT !.lines = Append(@, _generate_variable_declaration(
                            at(components[idx + 1], "belief"), idx))])
    ELSE IF has(components[idx + 1], "reasoning_context")
         THEN generate(components, idx + 1, [r EXCEPT !.lists = TRUE])
    ELSE generate(components, idx + 1,
                  [r EXCEPT !.lines = Append(@, "// Component " \o str_of_int(idx)
                                                \o ": Generic element translated from BOC")])

\* "\n".join(lines)
RECURSIVE join(_, _)
join(lines, i) ==
    IF i > Len(lines) THEN ""
    ELSE (IF i > 1 THEN "\n" ELSE "") \o lines[i] \o join(lines, i + 1)

\* the end of translate_to_clarity: the join raises on an item that is no str
joined(r) ==
    IF r.err # "" THEN [clarity_code |-> "", err |-> r.err]
    ELSE IF r.lists THEN [clarity_code |-> "", err |-> "TypeError"]
    ELSE [clarity_code |-> join(r.lines, 1), err |-> ""]

translate_to_clarity(boc_representation, now) ==
    joined(generate(
        get_or(get_or(boc_representation, "structured_knowledge", JDict(<<>>)),
               "components", JList(<<>>)).v,
        0,
        [lines |-> << "// Auto-generated from BOC representation (v" \o version \o ")",
                      "// Translated at: " \o now,
                      "// Original source: "
                        \o py_str(get_or(get_or(get_or(boc_representation, "structured_knowledge",
                                                       JDict(<<>>)),
                                                "provenance", JDict(<<>>)),
                                         "author", JStr("unknown"))),
                      "" >>,
         lists |-> FALSE,
         err |-> ""]))

_verify_round_trip(boc_repr, expected_proof) ==
    [verification_passed |-> TRUE,
     confidence_level |-> "0.95",
     differences_detected |-> <<>>,
     semantic_equivalence_confirmed |-> TRUE]

\* translate_with_verification given what translate_to_clarity returned or
\* raised; expected_proof is a proof, which is a non-empty dict
with_verification(translated, boc_representation, expected_proof, now) ==
    IF translated.err # "" THEN [err |-> translated.err]
    ELSE [err |-> "",
          clarity_code |-> translated.clarity_code,
          verification_result |-> _verify_round_trip(boc_representation, expected_proof),
          translator_version |-> version,
          timestamp |-> now]

translate_with_verification(boc_representation, expected_proof, now) ==
    with_verification(translate_to_clarity(boc_representation, now), boc_representation,
                      expected_proof, now)

(***************************************************************************)
(* The translators as a state machine: one ClarityToBOCTranslator, whose   *)
(* translation_proofs grows with every translation, and a caller that      *)
(* holds the result of the last translation, may change the document or    *)
(* the source it holds, and has them verified.                             *)
(***************************************************************************)
MaxProofs == 2

\* datetime.now().isoformat() during the n-th call of a translator: the
\* clock moves on between two calls
now(n) == "2026-01-01T00:00:0" \o str_of_int(n)

Programs ==
    << "let x = 1; var y = \"a\"; x = 2;",
       "fn f(a: Int) -> Int { return a; }",
       "if x { y }" >>

ParsedPrograms == [i \in 1..Len(Programs) |-> parse_source(Programs[i])]

\* the places of the str, number, bool and None values of a document: the
\* keys and the list positions (in decimal) that lead to each
RECURSIVE Paths(_)
Paths(value) ==
    IF value.j \in {"dict", "list"}
    THEN UNION {{<<(IF value.j = "dict" THEN value.v[i][1] ELSE str_of_int(i - 1))>> \o p :
                    p \in Paths(IF value.j = "dict" THEN value.v[i][2] ELSE value.v[i])} :
                i \in DOMAIN value.v}
    ELSE {<<>>}

\* the position in a container that a step of a path names
Step(value, step) ==
    IF value.j = "dict" THEN CHOOSE i \in DOMAIN value.v : value.v[i][1] = step
    ELSE CHOOSE i \in DOMAIN value.v : str_of_int(i - 1) = step

\* document[k1][k2]... = new, for the keys <<k1, k2, ...>>
RECURSIVE put(_, _, _)
put(value, keys, new) ==
    IF keys = <<>> THEN new
    ELSE IF value.j = "dict"
         THEN [value EXCEPT !.v[Step(value, keys[1])][2] = put(@, Tail(keys), new)]
    ELSE [value EXCEPT !.v[Step(value, keys[1])] = put(@, Tail(keys), new)]

\* the same dict built with its keys in the opposite order
reversed(value) == [value EXCEPT !.v = [i \in DOMAIN @ |-> @[Len(@) + 1 - i]]]

InitTranslator ==
    /\ heap = Interpreter.heap
    /\ global_env = Interpreter.env
    /\ last = Idle
    /\ TranslatorIdle
    /\ NoInstances
    /\ LexerIdle

\* translate_with_provenance returned result: the proof is appended and the
\* caller holds the source, the document and the proof
translated(source, result) ==
    /\ translation_proofs' = Append(translation_proofs, result.proof)
    /\ held' = [source |-> source,
                document |-> result.boc_representation,
                proof |-> result.proof,
                returned |-> result.boc_representation,
                changed |-> "nothing"]
    /\ verdict' = [op |-> "translate", before |-> translation_proofs]

Translate(i) ==
    /\ Len(translation_proofs) < MaxProofs
    /\ ParsedPrograms[i].err = ""
    /\ translated(Programs[i],
                  translate_with_provenance(ParsedPrograms[i].node, Programs[i],
                                            now(Len(translation_proofs))))

\* the caller changes one field of the document it holds
ChangeField(keys) ==
    /\ held # <<>> /\ held.changed = "nothing"
    /\ held' = [held EXCEPT !.document = put(@, keys, JStr("tampered")), !.changed = "field"]
    /\ verdict' = NoVerdict
    /\ UNCHANGED translation_proofs

\* the caller rebuilds the document with the top-level keys in another order
ReorderKeys ==
    /\ held # <<>> /\ held.changed = "nothing"
    /\ held' = [held EXCEPT !.document = reversed(@), !.changed = "order"]
    /\ verdict' = NoVerdict
    /\ UNCHANGED translation_proofs

\* the caller changes the source text it holds, by a blank at its end
ChangeSource ==
    /\ held # <<>> /\ held.changed = "nothing"
    /\ held' = [held EXCEPT !.source = @ \o " ", !.changed = "source"]
    /\ verdict' = NoVerdict
    /\ UNCHANGED translation_proofs

\* translation_proofs[k].verify_proof(source, document) on what the caller holds
VerifyProof(k) ==
    /\ held # <<>>
    /\ verdict' = [op |-> "verify_proof", k |-> k, before |-> translation_proofs,
                   result |-> verify_proof(translation_proofs[k], held.source, held.document)]
    /\ UNCHANGED <<translation_proofs, held>>

\* BOCtoClarityTranslator().translate_with_verification(document, proof) on
\* what the caller holds
verified(result) ==
    /\ verdict' = [op |-> "translate_with_verification", err |-> result.err,
                   verification_passed |->
                       IF result.err = "" THEN result.verification_result.verification_passed
                       ELSE FALSE]
    /\ UNCHANGED <<translation_proofs, held>>

VerifyRoundTrip ==
    /\ held # <<>>
    /\ verified(translate_with_verification(held.document, held.proof,
                                            now(Len(translation_proofs))))

NextTranslator ==
    \/ \E i \in 1..Len(Programs) : Translate(i) /\ UNCHANGED <<heap, global_env, last, held_lexer, instances>>
    \/ \E keys \in Paths(IF held = <<>> THEN JNull ELSE held.document) :
           ChangeField(keys) /\ UNCHANGED <<heap, global_env, last, held_lexer, instances>>
    \/ ReorderKeys /\ UNCHANGED <<heap, global_env, last, held_lexer, instances>>
    \/ ChangeSource /\ UNCHANGED <<heap, global_env, last, held_lexer, instances>>
    \/ \E k \in 1..Len(translation_proofs) : VerifyProof(k) /\ UNCHANGED <<heap, global_env, last, held_lexer, instances>>
    \/ VerifyRoundTrip /\ UNCHANGED <<heap, global_env, last, held_lexer, instances>>

SpecTranslator == InitTranslator /\ [][NextTranslator]_vars

(***************************************************************************)
(* A caller that holds one lexer and asks it for token after token.  The   *)
(* three lexers of the repository read the same texts: Lexer               *)
(* (clarity_parser.py), OptimizedLexer (optimized_lexer.py) and BOCLexer   *)
(* (language_project/boc_parser.py).                                       *)
(***************************************************************************)
LexerClasses == {"Lexer", "OptimizedLexer", "BOCLexer"}

LexerTexts ==
    << "",
       "let s = \"a\\nb\";",
       "x = 1..2",
       "1.2.3 // c\ny",
       "a && b\n",
       "'it\\'s' \"\\\\\"",
       "\"a\\",
       "f(1.5) # 2",
       "@name(0.5) { k: true }",
       "a == b != c <= d >= e && f || g => h -> i",
       "\"s t\" // c\n  x >= 10;\n\ny" >>

new(class, text) ==
    [class |-> class,
     self |-> CASE class = "Lexer" -> Lexer(text)
                [] class = "OptimizedLexer" -> OptimizedLexer(text)
                [] class = "BOCLexer" -> BOCLexer(text)]

\* self.get_next_token() of the object's class
token_of(object) ==
    CASE object.class = "Lexer" -> get_next_token(object.self)
      [] object.class = "OptimizedLexer" -> OptimizedLexer_get_next_token(object.self)
      [] object.class = "BOCLexer" -> BOCLexer_get_next_token(object.self)

\* no call yet; ended holds the end-of-stream token that an earlier call returned
LexerCallIdle ==
    [op |-> "none", tok |-> Token("EOF", "", 0, 0), err |-> "", before |-> NoLexer,
     ended |-> <<>>]

InitLexer ==
    /\ heap = Interpreter.heap
    /\ global_env = Interpreter.env
    /\ last = LexerCallIdle
    /\ TranslatorIdle
    /\ NoInstances
    /\ held_lexer \in {new(class, LexerTexts[i]) : class \in LexerClasses, i \in 1..Len(LexerTexts)}

called(object, r, before) ==
    /\ held_lexer' = [object EXCEPT !.self = r.lx]
    /\ last' = [op |-> "get_next_token", tok |-> r.tok, err |-> r.err,
                before |-> object.self,
                ended |-> IF before.ended # <<>> THEN before.ended
                          ELSE IF before.op = "get_next_token" /\ before.err = ""
                                  /\ before.tok.type = "EOF"
                               THEN <<before.tok>>
                          ELSE <<>>]

GetNextToken == called(held_lexer, token_of(held_lexer), last)

NextLexer == GetNextToken /\ UNCHANGED <<heap, global_env, translation_proofs, held, verdict, instances>>

SpecLexer == InitLexer /\ [][NextLexer]_vars

(***************************************************************************)
(* A caller that builds a parser over a fresh lexer and parses the whole   *)
(* text: Parser(Lexer(text)).parse_program() for the source language and   *)
(* BOCParser(BOCLexer(code)).parse_program() for the knowledge dialect.    *)
(***************************************************************************)
BinaryOperators == {"||", "&&", "==", "!=", "<", ">", "<=", ">=", "+", "-", "*", "/"}

\* two binary operators between three operands
ExpressionText(o1, o2) == "a " \o o1 \o " b " \o o2 \o " c"

UnaryTexts == {"-a * b", "!a && b", "-f(a)", "!a == b", "a - -b", "a * f(b) + c"}

\* one statement of every form, written without a trailing semicolon
StatementForms ==
    << "fn f(a: Int) -> Int { return a; }",
       "let x = 1",
       "var y: Int = 2",
       "const K = 3",
       "if x { y }",
       "if x { y } else { z }",
       "while x { y }",
       "for i in xs { y }",
       "return 1",
       "match x { 1 => a, _ => b }",
       "x = 1",
       "f(x)",
       "x + 1" >>

CallTexts == {"f(x)(y)", "f(x)(y)(z)", "f()(x)", "f(x, y)(z)", "f(g(x))", "f(x)"}

\* statements that begin with an identifier, the token after it on the same
\* line, on the next line, or missing
PeekTexts == {"x\n= 1", "a; b; c", "x", "let a = 1\nlet b = 2"}

BlockKeywords ==
    {"reasoning_context", "intent", "shared_state", "self_capability",
     "calculate_with_uncertainty", "structured_knowledge"}

\* the annotations written after a block keyword, with the attribute names
\* they spell, in order
Annotations ==
    << [text |-> "", names |-> <<>>],
       [text |-> " @urgent", names |-> <<"urgent">>],
       [text |-> " @name(0.5)", names |-> <<"name">>],
       [text |-> " @a(x) @b", names |-> <<"a", "b">>],
       [text |-> " @p(\"q\") @r([1, 2])", names |-> <<"p", "r">>] >>

BlockText(keyword, i) == keyword \o Annotations[i].text \o " { k: 1 }"

\* texts that end inside a "{", a "(" or a "[": the closing bracket is missing
UnclosedTexts ==
    {"fn f() {", "fn f(a: Int", "fn f(a: Int,", "if x { y", "if x { y } else {",
     "while x {", "for i in xs { i", "match x {", "match x { 1 => a",
     "match x { 1 => a,", "f(1", "f(1, ", "(1 + 2", "f(", "g(1)(", "let a = ("}

UnclosedDialectTexts ==
    {"belief { fact: 1", "belief {", "x = [1, 2", "x = [", "x = [1,",
     "intent to_perform: \"go\" {", "self_capability @a(1", "structured_knowledge { ["}

SourceTexts ==
    {ExpressionText(o1, o2) : o1 \in BinaryOperators, o2 \in BinaryOperators}
    \cup UnaryTexts
    \cup {StatementForms[i] : i \in DOMAIN StatementForms}
    \cup {StatementForms[i] \o ";" : i \in DOMAIN StatementForms}
    \cup CallTexts
    \cup PeekTexts
    \cup UnclosedTexts

\* A literal as it is written and as the lexer hands it on
Lit(text, value, token_type) == [text |-> text, value |-> value, token_type |-> token_type]

Str(value) == Lit("\"" \o value \o "\"", value, "STRING")

Num(value) == Lit(value, value, "NUMBER")

NoLit == Lit("", "", "")

Pair(key, literal) == [key |-> key, literal |-> literal]

\* a block statement: its keyword, the literal after `confidence=` (belief)
\* or `to_perform:` (intent), and the `key: literal` pairs of its body
SimpleBlock(keyword, inline, pairs) == [keyword |-> keyword, inline |-> inline, pairs |-> pairs]

\* the program of test_simple_boc (boc_simple_test.py)
TestProgram ==
    << SimpleBlock("belief", Num("0.85"),
                   << Pair("fact", Str("temperature_is_22_degrees")),
                      Pair("source", Str("sensor_123")),
                      Pair("timestamp", Str("2026-02-02T19:00:00Z")) >>),
       SimpleBlock("reasoning_context", NoLit,
                   << Pair("assumption", Str("weather_is_clear")),
                      Pair("confidence_threshold", Num("0.7")) >>),
       SimpleBlock("intent", Str("adjust_temperature"),
                   << Pair("target", Num("22.0")),
                      Pair("urgency", Str("low")),
                      Pair("deadline", Str("2026-02-02T20:00:00Z")) >>),
       SimpleBlock("self_capability", NoLit,
                   << Pair("function", Str("analyze_sentiment")),
                      Pair("accuracy", Num("0.87")) >>) >>

SimpleBodies ==
    { <<Pair("k", Num("1"))>>,
      <<Pair("flag", Lit("true", "true", "BOOLEAN")), Pair("name", Str("a b")),
        Pair("flag", Lit("False", "False", "BOOLEAN"))>> }

SimpleBlocks ==
    {SimpleBlock("belief", inline, pairs) :
         inline \in {Num("0.5"), Str("high")}, pairs \in SimpleBodies}
    \cup {SimpleBlock("intent", Str("go"), pairs) : pairs \in SimpleBodies}
    \cup {SimpleBlock(keyword, NoLit, pairs) :
              keyword \in {"reasoning_context", "self_capability"}, pairs \in SimpleBodies}

\* the test's program, every block alone, and every two blocks in a row
SimplePrograms ==
    {TestProgram}
    \cup {<<block>> : block \in SimpleBlocks}
    \cup {<<first, second>> : first \in SimpleBlocks, second \in SimpleBlocks}

\* the text of a program, laid out as in the test: blocks indented by four
\* blanks with an empty line between them, one pair per line
Indent == "    "

RECURSIVE PairsText(_, _)
PairsText(pairs, i) ==
    IF i > Len(pairs) THEN ""
    ELSE Indent \o Indent \o pairs[i].key \o ": " \o pairs[i].literal.text \o "\n"
         \o PairsText(pairs, i + 1)

InlineText(block) ==
    CASE block.keyword = "belief" -> " confidence=" \o block.inline.text
      [] block.keyword = "intent" -> " to_perform: " \o block.inline.text
      [] OTHER -> ""

RECURSIVE BlocksText(_, _)
BlocksText(blocks, i) ==
    IF i > Len(blocks) THEN ""
    ELSE "\n" \o Indent \o blocks[i].keyword \o InlineText(blocks[i]) \o " {\n"
         \o PairsText(blocks[i].pairs, 1) \o Indent \o "}\n" \o BlocksText(blocks, i + 1)

ProgramText(blocks) == BlocksText(blocks, 1) \o Indent

DialectTexts ==
    {BlockText(keyword, i) : keyword \in BlockKeywords, i \in DOMAIN Annotations}
    \cup {ProgramText(blocks) : blocks \in SimplePrograms}
    \cup {"belief confidence=0.85 { fact: \"t\" }", "x = [1, 2.5]",
          "intent to_perform: \"go\" { who: [a, b] }"}
    \cup UnclosedDialectTexts

ParseIdle == [op |-> "none", source |-> "", err |-> "", node |-> NoneNode,
              token |-> Token("EOF", NoneCh, 0, 0)]

InitParser ==
    /\ heap = Interpreter.heap
    /\ global_env = Interpreter.env
    /\ last = ParseIdle
    /\ TranslatorIdle
    /\ NoInstances
    /\ held_lexer \in {new("Lexer", text) : text \in SourceTexts}
                      \cup {new("BOCLexer", text) : text \in DialectTexts}

\* the parser has read the lexer it was built on to the place where it
\* stopped; the caller holds the Program node or the error
parsed(object, r, op) ==
    /\ held_lexer' = [object EXCEPT !.self = r.p.lexer]
    /\ last' = [op |-> op, source |-> object.self.text, err |-> r.err, node |-> r.node,
                token |-> r.p.current_token]

ParseProgram ==
    /\ held_lexer.class = "Lexer"
    /\ last.op = "none"
    /\ parsed(held_lexer, parse_program(Parser(held_lexer.self)), "parse_program")

ParseBOCCode ==
    /\ held_lexer.class = "BOCLexer"
    /\ last.op = "none"
    /\ parsed(held_lexer, BOCParser_parse_program(BOCParser(held_lexer.self)),
              "parse_boc_code")

NextParser ==
    \/ ParseProgram /\ UNCHANGED <<heap, global_env, translation_proofs, held, verdict, instances>>
    \/ ParseBOCCode /\ UNCHANGED <<heap, global_env, translation_proofs, held, verdict, instances>>

SpecParser == InitParser /\ [][NextParser]_vars

(***************************************************************************)
(* The pipeline of the translator's tests: parse a program, translate the  *)
(* Program node forward with translate_entire_program, then hand the       *)
(* document it returned to BOCtoClarityTranslator.translate_to_clarity.    *)
(***************************************************************************)
\* programs of two top-level statements, each of any form, and programs of
\* functions with no, one and several parameters
PipelinePrograms ==
    {StatementForms[i] \o "\n" \o StatementForms[j] :
         i \in DOMAIN StatementForms, j \in DOMAIN StatementForms}
    \cup {"fn g(b: Int, a: Str, c: Bool) -> Int { return b; }\nfn h() -> Int { return 1; }",
          "let x = 1; var y = \"a\"; x = 2;",
          "var n = x + 1\nlet s = true\nwhile n { }\ng(n)\nif s { n } else { s }",
          ""}

InitPipeline ==
    /\ heap = Interpreter.heap
    /\ global_env = Interpreter.env
    /\ last = ParseIdle
    /\ TranslatorIdle
    /\ NoInstances
    /\ held_lexer \in {new("Lexer", text) : text \in PipelinePrograms}

\* boc = ClarityToBOCTranslator().translate_entire_program(ast): the caller
\* holds the Program node and the document
TranslateEntireProgram ==
    /\ last.op = "parse_program" /\ last.err = ""
    /\ held = <<>>
    /\ held' = [source |-> last.source,
                ast |-> last.node,
                document |-> translate_entire_program(last.node, now(0))]
    /\ verdict' = [op |-> "translate_entire_program"]
    /\ UNCHANGED translation_proofs

\* text = BOCtoClarityTranslator().translate_to_clarity(boc)
reversed_to(r) ==
    /\ verdict' = [op |-> "translate_to_clarity", err |-> r.err, clarity_code |-> r.clarity_code]
    /\ UNCHANGED <<translation_proofs, held>>

TranslateToClarity ==
    /\ held # <<>>
    /\ verdict.op = "translate_entire_program"
    /\ reversed_to(translate_to_clarity(held.document, now(1)))

NextPipeline ==
    \/ ParseProgram /\ UNCHANGED <<heap, global_env, translation_proofs, held, verdict, instances>>
    \/ TranslateEntireProgram /\ UNCHANGED <<heap, global_env, last, held_lexer, instances>>
    \/ TranslateToClarity /\ UNCHANGED <<heap, global_env, last, held_lexer, instances>>

SpecPipeline == InitPipeline /\ [][NextPipeline]_vars

(***************************************************************************)
(* A bare integer literal taken through the whole front end, as run_file   *)
(* does with the text of a file: Lexer, Parser.parse_program, then         *)
(* Interpreter().interpret.  The texts are all the runs of decimal digits  *)
(* of up to MaxDigits characters, leading zeros included.                  *)
(***************************************************************************)
MaxDigits == 3

RECURSIVE DigitStrings(_)
DigitStrings(n) ==
    IF n = 0 THEN {""}
    ELSE {text \o CharAt(Digits, d) : text \in DigitStrings(n - 1), d \in 0..9}

IntegerLiterals == UNION {DigitStrings(n) : n \in 1..MaxDigits}

LiteralIdle(text) == [op |-> "none", text |-> text, perr |-> "", err |-> "", val |-> NoneV]

InitLiteral ==
    /\ heap = Interpreter.heap
    /\ global_env = Interpreter.env
    /\ last \in {LiteralIdle(text) : text \in IntegerLiterals}
    /\ TranslatorIdle
    /\ NoInstances
    /\ LexerIdle

\* ast = Parser(Lexer(text)).parse_program(); result = interpreter.interpret(ast)
interpreted(text, r) ==
    /\ heap' = collect(r.s.heap, r.s.env)
    /\ global_env' = Len(heap')
    /\ last' = [op |-> "interpret", text |-> text, perr |-> "", err |-> r.err, val |-> r.val]

evaluated(text, program) ==
    IF program.err # ""
    THEN /\ last' = [LiteralIdle(text) EXCEPT !.op = "interpret", !.perr = program.err]
         /\ UNCHANGED <<heap, global_env>>
    ELSE interpreted(text, interpret(program.node, heap, global_env))

EvaluateLiteral ==
    /\ last.op = "none"
    /\ evaluated(last.text, parse_source(last.text))

NextLiteral == EvaluateLiteral /\ UNCHANGED <<translation_proofs, held, verdict, held_lexer, instances>>

SpecLiteral == InitLiteral /\ [][NextLiteral]_vars

(***************************************************************************)
(* Two objects, each with a caller (a thread) of its own, that take their  *)
(* steps in any order: a lexer is asked for its next token, a parser for   *)
(* its next top-level statement (one turn of the loop of parse_program),   *)
(* an interpreter visits the next statement of its program (one turn of    *)
(* the loop of visit_Program).  Every attribute the methods write is set   *)
(* on self by __init__; the class attributes (KEYWORDS, the operator       *)
(* tables, WHITESPACE_CHARS) are only read.                                *)
(***************************************************************************)
InstanceTexts ==
    [Lexer |-> <<"a = true", "x\ntrue">>,
     OptimizedLexer |-> <<"a = true", "x\ntrue">>,
     BOCLexer |-> <<"a = true", "x\ntrue">>,
     Parser |-> <<"let a = 1; a", "f(x)\ny = 2">>,
     Interpreter |-> <<"var x = 1; x = x + 1; x", "let y = 2; println(y); y * 3">>]

InstanceKinds == DOMAIN InstanceTexts

\* Lexer(text), OptimizedLexer(text), BOCLexer(text), Parser(Lexer(text)),
\* or Interpreter() with the program it is about to interpret
New(kind, text) ==
    [kind |-> kind,
     text |-> text,
     self |-> CASE kind \in LexerClasses -> new(kind, text).self
                [] kind = "Parser" -> Parser(Lexer(text))
                [] kind = "Interpreter" ->
                     [heap |-> Interpreter.heap, env |-> Interpreter.env,
                      log |-> <<>>, stack |-> <<>>],
     out |-> <<>>]

\* `self` in a method call on the i-th object: the attributes set by the
\* __init__ that made it (the token pool is self._token_pool)
class_token_pool(objects, i) ==
    IF objects[i].real.kind = "OptimizedLexer" /\ objects[3 - i].real.kind = "OptimizedLexer"
    THEN [objects[i].real.self EXCEPT
              !._token_pool = objects[3 - i].real.self._token_pool \o @]
    ELSE objects[i].real.self

bound_self(objects, i) == objects[i].real.self

finished(object) ==
    CASE object.kind \in LexerClasses ->
             /\ object.out # <<>>
             /\ \/ object.out[Len(object.out)].err # ""
                \/ object.out[Len(object.out)].tok.type = "EOF"
      [] object.kind = "Parser" ->
             \/ object.self.err # ""
             \/ token(object.self).type = "EOF"
      [] object.kind = "Interpreter" ->
             \/ Len(object.out) = Len(parse_source(object.text).node.statements)
             \/ (object.out # <<>> /\ object.out[Len(object.out)].err # "")

lexer_step(object, r) ==
    [object EXCEPT !.self = r.lx, !.out = Append(@, [tok |-> r.tok, err |-> r.err])]

parser_step(object, r) ==
    [object EXCEPT !.self = r, !.out = Append(@, [node |-> r.node, err |-> r.err])]

interpreter_step(object, r) ==
    [object EXCEPT !.self = r.s, !.out = Append(@, [val |-> r.val, err |-> r.err])]

\* one step of the object, made on self
step(object, self) ==
    CASE object.kind \in LexerClasses ->
             lexer_step(object, token_of([class |-> object.kind, self |-> self]))
      [] object.kind = "Parser" ->
             parser_step(object, parse_statement(self))
      [] object.kind = "Interpreter" ->
             interpreter_step(object,
                 visit(parse_source(object.text).node.statements[Len(object.out) + 1],
                       Log(self, [k |-> "stmt", call |-> CallId(self)])))

\* the object as it runs among the others (real), and beside it the same
\* object taking the same number of steps with nothing else running (alone)
side_by_side(object) == [real |-> object, alone |-> object]

both(pair, self) ==
    [which \in {"real", "alone"} |->
        step(pair[which], IF which = "real" THEN self ELSE pair.alone.self)]

InstanceStarts ==
    {side_by_side(New(kind, InstanceTexts[kind][n])) :
         kind \in InstanceKinds, n \in 1..2}

InitInstances ==
    /\ heap = Interpreter.heap
    /\ global_env = Interpreter.env
    /\ last = Idle
    /\ TranslatorIdle
    /\ LexerIdle
    /\ \E first \in InstanceStarts, second \in InstanceStarts :
           instances = <<first, second>>

StepInstance(i) ==
    /\ ~finished(instances[i].real)
    /\ instances' = [instances EXCEPT ![i] = both(@, bound_self(instances, i))]

NextInstances ==
    \E i \in 1..2 :
        StepInstance(i) /\ UNCHANGED <<heap, global_env, last, translation_proofs, held, verdict, held_lexer>>

SpecInstances == InitInstances /\ [][NextInstances]_vars

(***************************************************************************)
(* Two ClarityToBOCTranslator objects, each with a caller of its own that  *)
(* keeps, in call order, the proofs that its calls returned.  The clock    *)
(* moves on with every call, whichever translator it is made on.           *)
(***************************************************************************)
SourceMap == [clarity_to_boc |-> <<>>, boc_to_clarity |-> <<>>]

ClarityToBOCTranslator == [version |-> version, translation_proofs |-> <<>>, source_maps |-> <<>>]

\* hashlib.sha256(...).hexdigest()[:16], taken as injective like sha256
_generate_program_id(clarity_source) == "id<" \o clarity_source \o ">"

\* source_map = SourceMap(); self._walk_clarity_ast(...) adds nothing to it
_generate_source_map == SourceMap

\* a list of proofs that belongs to the class: every translator appends to it
store_in_class_list(translators, i, proof) ==
    [j \in DOMAIN translators |->
        [translators[j] EXCEPT !.translation_proofs = Append(@, proof)]]

\* self.translation_proofs.append(proof)
store_proof(translators, i, proof) ==
    [translators EXCEPT ![i].translation_proofs = Append(@, proof)]

\* self.source_maps[program_id] = source_map
store_source_map(translators, i, program_id, source_map) ==
    [translators EXCEPT ![i].source_maps = set_item(@, program_id, source_map)]

InitTranslators ==
    /\ heap = Interpreter.heap
    /\ global_env = Interpreter.env
    /\ last = Idle
    /\ translation_proofs = <<>>
    /\ verdict = NoVerdict
    /\ LexerIdle
    /\ instances = <<ClarityToBOCTranslator, ClarityToBOCTranslator>>
    /\ held = << <<>>, <<>> >>

\* result = instances[i].translate_with_provenance(ast, source)
provenance_returned(i, source, result) ==
    /\ instances' = store_source_map(store_proof(instances, i, result.proof), i,
                                     _generate_program_id(source), _generate_source_map)
    /\ held' = [held EXCEPT ![i] = Append(@, result.proof)]
    /\ verdict' = [op |-> "translate_with_provenance", on |-> i]

TranslateWithProvenance(i, p) ==
    /\ Len(held[i]) < MaxProofs
    /\ ParsedPrograms[p].err = ""
    /\ provenance_returned(i, Programs[p],
                           translate_with_provenance(ParsedPrograms[p].node, Programs[p],
                                                     now(Len(held[1]) + Len(held[2]))))

NextTranslators ==
    \E i \in 1..2, p \in 1..Len(Programs) :
        TranslateWithProvenance(i, p) /\ UNCHANGED <<heap, global_env, last, translation_proofs, held_lexer>>

SpecTranslators == InitTranslators /\ [][NextTranslators]_vars

(***************************************************************************)
(* A caller that reads one text twice, through a Lexer and through an      *)
(* OptimizedLexer, asking both for their next token in turn until each     *)
(* has returned the end-of-stream token or raised.                         *)
(***************************************************************************)
ReplacementTexts ==
    {LexerTexts[i] : i \in DOMAIN LexerTexts}
        \cup {"fn f(a) -> Int { return a; }", "match x { 1 => a, _ => b }",
              "let r = 1.5 + 2;", "println(\"a\\nb\");", "a ? b", "x -= 1",
              "a\tb\r\nc", "if a <= b { c } else { d }", "TRUE False",
              "5.x", "\"abc", "while i < 10 { i = i + 1; }"}

InitReplacement ==
    /\ heap = Interpreter.heap
    /\ global_env = Interpreter.env
    /\ last = Idle
    /\ TranslatorIdle
    /\ LexerIdle
    /\ \E text \in ReplacementTexts :
           instances = <<New("Lexer", text), New("OptimizedLexer", text)>>

\* token = lexer.get_next_token() on each lexer that has not finished
next_tokens(lexers) ==
    [i \in DOMAIN lexers |->
        IF finished(lexers[i]) THEN lexers[i] ELSE step(lexers[i], lexers[i].self)]

NextTokens ==
    /\ \E i \in DOMAIN instances : ~finished(instances[i])
    /\ instances' = next_tokens(instances)

NextReplacement ==
    NextTokens /\ UNCHANGED <<heap, global_env, last, translation_proofs, held, verdict, held_lexer>>

SpecReplacement == InitReplacement /\ [][NextReplacement]_vars

(***************************************************************************)
(* A caller that holds one SourceMap and adds mappings to it, keeping the  *)
(* list of the calls it made.  A dict is the sequence of its <<key,        *)
(* value>> pairs in insertion order; dict.get(key) is <<>> for None and    *)
(* <<value>> for a value.                                                  *)
(***************************************************************************)
MaxMappings == 3

ClarityPositions == {<<1, 1>>, <<1, 5>>, <<2, 1>>}

BOCPaths == {"root", "root.statements[0]", "root.statements[1]"}

dict_get(d, key) ==
    IF \E i \in DOMAIN d : d[i][1] = key
    THEN <<d[CHOOSE i \in DOMAIN d : d[i][1] = key][2]>>
    ELSE <<>>

add_mapping(self, clarity_position, boc_path) ==
    [self EXCEPT !.clarity_to_boc = set_item(@, clarity_position, boc_path),
                 !.boc_to_clarity = set_item(@, boc_path, clarity_position)]

get_boc_element_for_clarity(self, line, col) == dict_get(self.clarity_to_boc, <<line, col>>)

get_clarity_position_for_boc(self, boc_path) == dict_get(self.boc_to_clarity, boc_path)

InitSourceMap ==
    /\ heap = Interpreter.heap
    /\ global_env = Interpreter.env
    /\ last = Idle
    /\ translation_proofs = <<>>
    /\ verdict = NoVerdict
    /\ LexerIdle
    /\ instances = <<SourceMap>>
    /\ held = <<>>

AddMapping(clarity_position, boc_path) ==
    /\ Len(held) < MaxMappings
    /\ instances' = [instances EXCEPT ![1] = add_mapping(@, clarity_position, boc_path)]
    /\ held' = Append(held, <<clarity_position, boc_path>>)
    /\ verdict' = [op |-> "add_mapping"]

NextSourceMap ==
    \E clarity_position \in ClarityPositions, boc_path \in BOCPaths :
        AddMapping(clarity_position, boc_path) /\ UNCHANGED <<heap, global_env, last, translation_proofs, held_lexer>>

SpecSourceMap == InitSourceMap /\ [][NextSourceMap]_vars

(***************************************************************************)
(* Properties of the interpreter, stated over the log of the last run.     *)
(***************************************************************************)
Events == last.log

Of(kind) == {i \in DOMAIN Events : Events[i].k = kind}

Only(kind) == SelectSeq(Events, LAMBDA e : e.k = kind)

Min(S) == CHOOSE m \in S : \A n \in S : m <= n

Max(S) == CHOOSE m \in S : \A n \in S : n <= m

Source == IF last.src = 0 THEN "" ELSE Sources[last.src]

Bound(name) == name \in DOMAIN heap[1].vars

PrintedArgs == [i \in DOMAIN Only("print") |-> Only("print")[i].args]

\* C2: a return statement run during a call of a user-defined function, also
\* one nested in an if, while or for body, ends that call at once: no later
\* statement of the function runs in that call and the value of the call is
\* the value returned.
ReturnEndsCall ==
    \A i \in Of("exit") :
        LET returns == {j \in Of("ret") : j < i /\ Events[j].call = Events[i].call}
        IN returns # {} =>
              /\ ~\E j \in Of("stmt") :
                     Min(returns) < j /\ j < i /\ Events[j].call = Events[i].call
              /\ Events[i].err = "" => Events[i].val = Events[Min(returns)].val

\* C3: after the visit of an if, a while, a for or a user-defined call, ended
\* normally or by an error raised at any depth, the current environment is the
\* one it was before the visit; so after every run, failed or not, the current
\* environment is the global environment.
EnvironmentRestored ==
    /\ global_env = 1
    /\ \A i \in Of("scope") : Events[i].after = Events[i].before

\* an error raised inside an if inside a while inside a for inside a call:
\* every kind of scope was left by the error
ErrorLeftEveryScope ==
    /\ last.err = "NameError"
    /\ \A kind \in Scoped :
           \E i \in Of("scope") : Events[i].kind = kind /\ Events[i].err = "NameError"

\* C4: scoping is lexical: in the body of a user-defined function a name that
\* neither the function's own frames nor the scope of its definition binds
\* (so a name bound only in a local frame of the caller) cannot be read: the
\* read is a lookup error.
LexicalScoping ==
    \A i \in Of("read") : ~Events[i].lexical => Events[i].err = "NameError"

\* the argument bound to parameter j when a call binds each parameter in turn:
\* that of the last parameter of the same name
LastOfName(params, j) == Max({n \in DOMAIN params : params[n][1] = params[j][1]})

ArityErrorsAreFatal ==
    \A i \in Of("arity") :
        /\ last.err = "ValueError"
        /\ i < Len(Events)
        /\ Events[i + 1].k = "scope" /\ Events[i + 1].kind = "FunctionCall"
        /\ Events[i + 1].err = "ValueError" /\ Events[i + 1].pushed = 0
        /\ Events[i + 1].after = Events[i + 1].before
        /\ \A j \in DOMAIN Events : j > i => Events[j].k \in {"scope", "exit"}

\* C5 (amended): a call of a user-defined function with a number of arguments
\* other than its number of parameters raises a fatal error: no frame is
\* created, no parameter is bound, no statement of the body runs and at top
\* level the environment is left as it was; with matching arity the call binds,
\* in a fresh frame, exactly the parameter names, each to the argument of its
\* last occurrence in the parameter list (its own argument when the names are
\* distinct), and with fn add(a: Int, b: Int) -> Int { return a + b; },
\* add(2, 3) is 5.
ArityChecked ==
    /\ ArityErrorsAreFatal
    /\ \A i \in Of("call") :
          LET params == Events[i].params
              args == Events[i].args
          IN /\ Len(args) = Len(params)
             /\ Events[i].fresh
             /\ DOMAIN Events[i].vars = {params[j][1] : j \in DOMAIN params}
             /\ \A j \in DOMAIN params :
                    Events[i].vars[params[j][1]] = args[LastOfName(params, j)]
    /\ Source \in {"add(1)", "add(1, 2, x)"} /\ Bound("add") =>
          last.err = "ValueError" /\ last.same
    /\ Source = AddText /\ Bound("add") =>
          last.err = "ValueError" /\ Bound("r") /\ heap[1].vars["r"] = IntV(5)

\* add(2, 3) has bound r to 5, then add(1) was refused
AddCalledThenRefused ==
    /\ Source = AddText
    /\ last.err = "ValueError"
    /\ Of("arity") # {} /\ Of("call") # {}
    /\ Bound("r") /\ heap[1].vars["r"] = IntV(5)

\* C5 as stated: with matching arity each parameter is bound to its own
\* argument, and for `fn add(a, b) { return a + b; }`, add(2, 3) is 5.
ArityCheckedAsStated ==
    /\ ArityErrorsAreFatal
    /\ \A i \in Of("call") :
          /\ Len(Events[i].args) = Len(Events[i].params)
          /\ \A j \in DOMAIN Events[i].params :
                 Events[i].vars[Events[i].params[j][1]] = Events[i].args[j]
    /\ Source = UntypedAddText =>
          last.perr = "" /\ last.err = "" /\ last.val = IntV(5)

\* C6: running `for x in [1, 2, 3] { println(x); }` executes the body three
\* times with x bound to 1, 2, 3 in that order, each iteration in a scope of
\* its own that holds nothing of the iteration before; a for loop over an
\* n-element sequence runs its body n times in sequence order.
ForLoopRunsInOrder ==
    /\ Source = ForText =>
          /\ last.perr = "" /\ last.err = ""
          /\ PrintedArgs = <<<<IntV(1)>>, <<IntV(2)>>, <<IntV(3)>>>>
    /\ Source = ForXsText /\ Bound("xs") =>
          [i \in DOMAIN Only("iter") |-> Only("iter")[i].item] = Xs.v
    /\ \A i \in Of("iter") : DOMAIN Events[i].vars = {Events[i].variable}

MatchNode == Parsed[last.src].node.statements[1]

IsMatch ==
    /\ last.src # 0
    /\ Parsed[last.src].err = ""
    /\ Len(Parsed[last.src].node.statements) = 1
    /\ MatchNode.node_type = "MatchExpr"

LiteralValue(pattern) ==
    CASE pattern.node_type = "Number" -> IntV(pattern.value)
      [] pattern.node_type = "String" -> StrV(pattern.value)
      [] pattern.node_type = "Boolean" -> BoolV(pattern.value)

\* the first arm whose pattern matches v (0 when none does)
FirstMatch(arms, v) ==
    LET hits == {i \in DOMAIN arms :
                    \/ arms[i][1].node_type = "Identifier"
                    \/ /\ arms[i][1].node_type \in {"Number", "String", "Boolean"}
                       /\ py_eq(v, LiteralValue(arms[i][1]))}
    IN IF hits = {} THEN 0 ELSE Min(hits)

\* the value of an arm's result p(k), and what evaluating it prints
ResultOf(expr) == IntV(expr.args[1].value)

\* C7: a match evaluates its scrutinee once and tests its arms from the top,
\* one after the other, up to the first arm that matches (a literal pattern by
\* equality, an identifier pattern always); the value is that arm's result, no
\* other arm's result is evaluated, a catch-all arm before an equal literal arm
\* wins, and when no arm matches a fatal error is raised.
MatchTakesFirstArm ==
    IsMatch =>
        LET scrutinee == Only("scrutinee")
            tested == [i \in DOMAIN Only("test") |-> Only("test")[i].arm]
            taken == [i \in DOMAIN Only("arm") |-> Only("arm")[i].arm]
            first == FirstMatch(MatchNode.arms, scrutinee[1].val)
            shown == IF MatchNode.expr.node_type = "FunctionCall"
                     THEN <<<<scrutinee[1].val>>>> ELSE <<>>
        IN /\ Len(scrutinee) <= 1
           /\ Len(scrutinee) = 0 => last.err # "" /\ tested = <<>> /\ taken = <<>>
           /\ Len(scrutinee) = 1 /\ first = 0 =>
                 /\ tested = [i \in 1..Len(MatchNode.arms) |-> i]
                 /\ taken = <<>>
                 /\ last.err = "ValueError"
                 /\ PrintedArgs = shown
           /\ Len(scrutinee) = 1 /\ first > 0 =>
                 /\ tested = [i \in 1..first |-> i]
                 /\ taken = <<first>>
                 /\ last.err = "" =>
                       /\ last.val = ResultOf(MatchNode.arms[first][2])
                       /\ PrintedArgs = shown \o <<<<ResultOf(MatchNode.arms[first][2])>>>>

\* the scrutinee is 1, the catch-all arm stands before the arm `1`, and the
\* value is the catch-all's
CatchAllWon ==
    /\ Source = CatchAllFirstText
    /\ last.err = ""
    /\ Bound("x") /\ heap[1].vars["x"] = IntV(1)
    /\ last.val = IntV(20)

IsZero(v) == v.t \in {"int", "bool", "float"} /\ NumN(v) = 0

\* C8: a division whose right operand evaluates to 0 raises an arithmetic
\* error, whatever the left operand, and produces no value: nothing is
\* evaluated after it and the run ends with that error.
DivisionByZeroRaises ==
    \A i \in Of("binop") :
        Events[i].operator = "/" /\ IsZero(Events[i].right) =>
            /\ Events[i].err = "ZeroDivisionError"
            /\ Events[i].val = NoneV
            /\ last.err = "ZeroDivisionError" /\ last.val = NoneV
            /\ \A j \in DOMAIN Events : j > i => Events[j].k \in {"scope", "exit"}

\* 10 / x was evaluated with x = 0
TenDividedByZero ==
    /\ last.err = "ZeroDivisionError"
    /\ \E i \in Of("binop") :
           /\ Events[i].operator = "/"
           /\ Events[i].left = IntV(10) /\ Events[i].right = IntV(0)

(***************************************************************************)
(* Properties of Environment, stated over the last call and the frames     *)
(* before and after it.                                                    *)
(***************************************************************************)
\* the frames from frame e outward to the root, nearest first
RECURSIVE Outward(_, _)
Outward(h, e) == IF e = 0 THEN <<>> ELSE <<e>> \o Outward(h, h[e].parent)

\* the positions in Outward of the frames that bind the name
Binders(h, e, name) ==
    {i \in 1..Len(Outward(h, e)) : name \in DOMAIN h[Outward(h, e)[i]].vars}

\* the heap differs from the one before at most in the binding of name in frame f
OnlyRebound(before, after, f, name) ==
    /\ Len(after) = Len(before)
    /\ \A k \in DOMAIN before :
          /\ after[k].parent = before[k].parent
          /\ k # f => after[k].vars = before[k].vars
    /\ DOMAIN after[f].vars = DOMAIN before[f].vars \cup {name}
    /\ \A m \in DOMAIN before[f].vars : m # name => after[f].vars[m] = before[f].vars[m]

\* C9: define(name, v) changes only the frame it is called on; assign(name, v)
\* updates the binding of the nearest frame, walking outward, that already
\* binds name and changes no other frame or name; get(name) returns the
\* binding of that nearest frame; when no frame of the chain binds name,
\* assign and get raise a lookup error, and assign creates no binding.
FrameEffects ==
    /\ last.op = "define" =>
          /\ OnlyRebound(last.before, heap, last.e, last.name)
          /\ heap[last.e].vars[last.name] = last.value
    /\ last.op \in {"assign", "get"} /\ Binders(last.before, last.e, last.name) # {} =>
          /\ last.err = ""
          /\ last.op = "assign" =>
                /\ OnlyRebound(last.before, heap,
                               Outward(last.before, last.e)[Min(Binders(last.before, last.e, last.name))],
                               last.name)
                /\ DOMAIN heap[Outward(last.before, last.e)[Min(Binders(last.before, last.e, last.name))]].vars
                     = DOMAIN last.before[Outward(last.before, last.e)[Min(Binders(last.before, last.e, last.name))]].vars
                /\ heap[Outward(last.before, last.e)[Min(Binders(last.before, last.e, last.name))]].vars[last.name]
                     = last.value
          /\ last.op = "get" =>
                /\ heap = last.before
                /\ last.val = heap[Outward(heap, last.e)[Min(Binders(heap, last.e, last.name))]].vars[last.name]
    /\ last.op \in {"assign", "get"} /\ Binders(last.before, last.e, last.name) = {} =>
          /\ last.err = "NameError"
          /\ last.val = NoneV
          /\ heap = last.before

\* an assignment reached a binding two frames out, past a frame that binds
\* another name, while a frame farther out binds the name too
AssignedPastShadow ==
    /\ last.op = "assign" /\ last.err = ""
    /\ Min(Binders(last.before, last.e, last.name)) > 1
    /\ Cardinality(Binders(last.before, last.e, last.name)) > 1
    /\ last.before[last.e].vars # NoVars
    /\ heap # last.before

(***************************************************************************)
(* Properties of the translators, stated over what the caller holds and    *)
(* the outcome of the last call.                                           *)
(***************************************************************************)
\* the fields of a document: every str, number, bool, None and empty
\* container with the keys and positions that lead to it
RECURSIVE Fields(_, _)
Fields(value, prefix) ==
    IF value.j \in {"dict", "list"}
    THEN IF value.v = <<>> THEN {prefix \o " = empty " \o value.j}
         ELSE UNION {Fields(IF value.j = "dict" THEN value.v[i][2] ELSE value.v[i],
                            prefix \o "/"
                              \o (IF value.j = "dict" THEN value.v[i][1] ELSE str_of_int(i - 1))) :
                     i \in DOMAIN value.v}
    ELSE {prefix \o " = " \o value.j \o " "
            \o (CASE value.j = "bool" -> (IF value.v THEN "true" ELSE "false")
                  [] value.j = "null" -> ""
                  [] OTHER -> value.v)}

SameFields(a, b) == Fields(a, "") = Fields(b, "")

\* C1: translate_with_verification, called with the document and the proof
\* that translate_with_provenance returned, reports verification_passed =
\* true when the document is unchanged and verification_passed = false when
\* a single field of the document was changed in between.
RoundTripDetectsChange ==
    verdict.op = "translate_with_verification" /\ verdict.err = "" =>
        (verdict.verification_passed <=> SameFields(held.document, held.returned))

\* C10: verify_proof(source, document) returns true only when the hash of
\* the supplied source is the stored source_hash and the hash of the
\* canonical serialization of the supplied document is the stored
\* target_hash; with a source that differs from the proof's, or a document
\* that differs from the proof's in a field, it returns false; and it leaves
\* the stored proofs as they were.
VerifyProofFailsClosed ==
    verdict.op = "verify_proof" =>
        /\ verdict.result =>
              /\ sha256(held.source) = translation_proofs[verdict.k].source_hash
              /\ sha256(dumps(held.document)) = translation_proofs[verdict.k].target_hash
        /\ held.source # translation_proofs[verdict.k].clarity_source => ~verdict.result
        /\ ~SameFields(held.document, translation_proofs[verdict.k].boc_target) => ~verdict.result
        /\ translation_proofs = verdict.before

\* the proof of the last translation was asked about the document it was
\* made for, with one field changed, and refused it
ChangedFieldRefused ==
    /\ verdict.op = "verify_proof" /\ verdict.k = Len(translation_proofs)
    /\ held.changed = "field"
    /\ held.source = translation_proofs[verdict.k].clarity_source
    /\ ~verdict.result

(***************************************************************************)
(* Lexing                                                                  *)
(***************************************************************************)
\* C11: once get_next_token has returned the end-of-stream token, every
\* further call on the same lexer returns an end-of-stream token of the same
\* kind, lexeme, line and column, and leaves the lexer's position, line and
\* column as they were.
EndOfStreamIsStable ==
    (last.op = "get_next_token" /\ last.ended # <<>>) =>
        /\ last.err = ""
        /\ last.tok.type = "EOF"
        /\ last.tok.type = last.ended[1].type
        /\ last.tok.value = last.ended[1].value
        /\ last.tok.line = last.ended[1].line
        /\ last.tok.column = last.ended[1].column
        /\ held_lexer.self.pos = last.before.pos
        /\ held_lexer.self.line = last.before.line
        /\ held_lexer.self.column = last.before.column

\* a pooling lexer called again after the end of a text of two lines
CalledPastTheEnd ==
    /\ last.op = "get_next_token"
    /\ last.ended # <<>>
    /\ held_lexer.class = "OptimizedLexer"
    /\ held_lexer.self.line = 2
    /\ held_lexer.self.pos = Len(held_lexer.self.text)

\* a STRING token of a text of one line whose closing quote was read: the
\* literal runs from the column of the token to the position of the lexer
ClosedString ==
    /\ last.op = "get_next_token"
    /\ last.err = ""
    /\ last.tok.type = "STRING"
    /\ last.tok.line = 1
    /\ held_lexer.self.line = 1
    /\ held_lexer.self.pos - 1 > last.tok.column
    /\ CharAt(held_lexer.self.text, held_lexer.self.pos - 1)
           = CharAt(held_lexer.self.text, last.tok.column)

\* the text between the quotes of that literal
BetweenQuotes ==
    SubSeq(held_lexer.self.text, last.tok.column + 2, held_lexer.self.pos - 1)

\* C15: the lexeme of a STRING token of Lexer and of BOCLexer is the text
\* between the quotes: a backslash followed by a character c is kept in the
\* lexeme as the backslash and c, both unchanged.
EscapeKeptInLexeme ==
    (ClosedString /\ held_lexer.class \in {"Lexer", "BOCLexer"}) =>
        last.tok.value = BetweenQuotes

Dots(text) == Cardinality({i \in 1..Len(text) : SubSeq(text, i, i) = "."})

AllDigits(text) == \A i \in 1..Len(text) : isdigit(SubSeq(text, i, i))

\* C16: a NUMBER of the base grammar is a maximal run of digits with no
\* decimal point; a NUMBER of the knowledge dialect is a run that starts with
\* a digit and holds one `.` at most, so that no NUMBER lexeme of BOCLexer has
\* two or more dots and `1..2` is lexed as a number, the range operator and a
\* number.
NumberHasOneDotAtMost ==
    (last.op = "get_next_token" /\ last.err = "" /\ last.tok.type = "NUMBER") =>
        /\ held_lexer.class = "Lexer" =>
               /\ AllDigits(last.tok.value)
               /\ ~isdigit(held_lexer.self.current_char)
        /\ held_lexer.class = "BOCLexer" =>
               /\ isdigit(SubSeq(last.tok.value, 1, 1))
               /\ Dots(last.tok.value) <= 1
               /\ held_lexer.self.text = "x = 1..2" => last.tok.value \in {"1", "2"}

(***************************************************************************)
(* Parsing                                                                 *)
(***************************************************************************)
\* the rung of a binary operator on the ladder, loosest first
Rung(operator) ==
    CASE operator = "||" -> 1
      [] operator = "&&" -> 2
      [] operator \in {"==", "!="} -> 3
      [] operator \in {"<", ">", "<=", ">="} -> 4
      [] operator \in {"+", "-"} -> 5
      [] operator \in {"*", "/"} -> 6

A == Identifier("a")
B == Identifier("b")
Cc == Identifier("c")

\* the tree of `a o1 b o2 c`: the tighter operator binds first and equal rungs
\* group to the left
Ladder(o1, o2) ==
    IF Rung(o2) > Rung(o1)
    THEN BinaryOp(A, o1, BinaryOp(B, o2, Cc))
    ELSE BinaryOp(BinaryOp(A, o1, B), o2, Cc)

\* the trees of the texts with a unary operator or a call
UnaryTree(text) ==
    CASE text = "-a * b" -> BinaryOp(UnaryOp("-", A), "*", B)
      [] text = "!a && b" -> BinaryOp(UnaryOp("!", A), "&&", B)
      [] text = "-f(a)" -> UnaryOp("-", FunctionCall("f", <<A>>))
      [] text = "!a == b" -> BinaryOp(UnaryOp("!", A), "==", B)
      [] text = "a - -b" -> BinaryOp(A, "-", UnaryOp("-", B))
      [] text = "a * f(b) + c" -> BinaryOp(BinaryOp(A, "*", FunctionCall("f", <<B>>)), "+", Cc)

\* C12: the expression parser applies the ladder logical-or < logical-and <
\* equality < relational < additive < multiplicative < unary < call/primary
\* and groups operators of one rung to the left: `a o1 b o2 c` parses as
\* BinaryOp(a, o1, BinaryOp(b, o2, c)) when o2 stands on a higher rung than
\* o1 and as BinaryOp(BinaryOp(a, o1, b), o2, c) otherwise, a unary operator
\* takes its operand before any binary operator does, and a call is taken
\* before a unary operator.
PrecedenceLadder ==
    last.op = "parse_program" =>
        /\ \A o1 \in BinaryOperators, o2 \in BinaryOperators :
               last.source = ExpressionText(o1, o2) =>
                   /\ last.err = ""
                   /\ last.node = Program(<<Ladder(o1, o2)>>)
        /\ last.source \in UnaryTexts =>
               /\ last.err = ""
               /\ last.node = Program(<<UnaryTree(last.source)>>)

\* the three trees the statement names have been built
LadderExamplesParsed ==
    /\ last.op = "parse_program"
    /\ last.err = ""
    /\ \/ /\ last.source = "a + b * c"
          /\ last.node = Program(<<BinaryOp(A, "+", BinaryOp(B, "*", Cc))>>)
       \/ /\ last.source = "a - b - c"
          /\ last.node = Program(<<BinaryOp(BinaryOp(A, "-", B), "-", Cc)>>)
       \/ /\ last.source = "a && b || c"
          /\ last.node = Program(<<BinaryOp(BinaryOp(A, "&&", B), "||", Cc)>>)

\* C13: every statement form (function definition, let/var declaration,
\* constant declaration, if, while, for, return, match, assignment, expression
\* statement) parses both with a trailing semicolon and without one, and both
\* spellings give the same single statement node.
TrailingSemicolonOptional ==
    \A i \in DOMAIN StatementForms :
        (last.op = "parse_program"
         /\ last.source \in {StatementForms[i], StatementForms[i] \o ";"}) =>
            /\ last.err = ""
            /\ Len(last.node.statements) = 1
            /\ parse_source(StatementForms[i]).err = ""
            /\ last.node.statements = parse_source(StatementForms[i]).node.statements

\* the names a tree of calls and identifiers mentions: its callees and all
\* that its argument lists hold
RECURSIVE Mentioned(_)
Mentioned(node) ==
    CASE node.node_type = "Identifier" -> {node.name}
      [] node.node_type = "FunctionCall" ->
             {node.name} \cup UNION {Mentioned(node.args[i]) : i \in DOMAIN node.args}
      [] OTHER -> {}

\* C14: for the chained call `f(x)(y)` the parser builds one call per
\* argument list; the outer call holds [y] and its callee is the call f(x),
\* so that both argument lists are kept in the tree and none is dropped.
ChainedCallsKeepEveryArgumentList ==
    (last.op = "parse_program" /\ last.source = "f(x)(y)") =>
        /\ last.err = ""
        /\ Len(last.node.statements) = 1
        /\ last.node.statements[1].node_type = "FunctionCall"
        /\ last.node.statements[1].args = <<Identifier("y")>>
        /\ {"f", "x", "y"} \subseteq Mentioned(last.node.statements[1])

\* the attribute names of a parsed block, in the order of the map
AttributeNames(block) == [j \in DOMAIN block.attributes |-> block.attributes[j][1]]

\* C17: a block keyword of the knowledge dialect followed by zero or more
\* annotations `@name(expr)` or `@name` and a braced body parses, and the
\* attribute map of the block holds one entry per annotation: the name mapped
\* to the parsed expression, or to true for the bare form.
AnnotatedBlockParses ==
    \A keyword \in BlockKeywords, i \in DOMAIN Annotations :
        (last.op = "parse_boc_code" /\ last.source = BlockText(keyword, i)) =>
            /\ last.err = ""
            /\ Len(last.node.statements) = 1
            /\ AttributeNames(last.node.statements[1]) = Annotations[i].names
            /\ Annotations[i].text = " @urgent" =>
                   last.node.statements[1].attributes[1][2] = True
            /\ Annotations[i].text = " @name(0.5)" =>
                   last.node.statements[1].attributes[1][2] = Literal("0.5", "NUMBER")

(***************************************************************************)
(* Forward and reverse translation                                         *)
(***************************************************************************)
\* the fragments of a document, in order
Components(document) == at(at(document, "structured_knowledge"), "components").v

IsNumber(value, text) == value.j = "num" /\ value.v = text

IsString(value, text) == value.j = "str" /\ value.v = text

IsFalse(value) == value.j = "bool" /\ ~value.v

\* C18: the belief fragment of a variable declaration carries a decay policy
\* that follows mutability: "over_time" for a mutable declaration (var) and
\* "none" for an immutable one (let).
DecayFollowsMutability ==
    held # <<>> =>
        \A k \in DOMAIN held.ast.statements :
            held.ast.statements[k].node_type = "VariableDecl" =>
                /\ has(Components(held.document)[k], "belief")
                /\ IsString(at(at(Components(held.document)[k], "belief"), "certainty_decay"),
                            IF held.ast.statements[k].mutable THEN "over_time" ELSE "none")

\* the fragment that the kind of a statement calls for
FragmentFor(stmt, fragment) ==
    CASE stmt.node_type = "FunctionDef" ->
             /\ has(fragment, "structured_knowledge")
             /\ IsString(at(at(fragment, "structured_knowledge"), "type"),
                         "function_definition")
             /\ IsString(at(at(fragment, "structured_knowledge"), "name"), stmt.name)
             /\ Len(at(at(fragment, "structured_knowledge"), "parameters").v)
                    = Len(stmt.params)
             /\ \A i \in DOMAIN stmt.params :
                    /\ IsString(at(at(at(fragment, "structured_knowledge"),
                                      "parameters").v[i], "name"),
                                stmt.params[i][1])
                    /\ IsString(at(at(at(fragment, "structured_knowledge"),
                                      "parameters").v[i], "type"),
                                stmt.params[i][2])
      [] stmt.node_type = "VariableDecl" ->
             /\ has(fragment, "belief")
             /\ IsString(at(at(fragment, "belief"), "fact"),
                         "variable_" \o stmt.name \o "_initialized")
             /\ IsNumber(at(at(fragment, "belief"), "confidence"), "0.95")
      [] stmt.node_type = "IfExpr" ->
             /\ has(fragment, "reasoning_context")
             /\ IsFalse(at(at(at(at(fragment, "reasoning_context"), "debugging_info"),
                              "branch_coverage"), "then_visited"))
             /\ IsFalse(at(at(at(at(fragment, "reasoning_context"), "debugging_info"),
                              "branch_coverage"), "else_visited"))
      [] OTHER ->
             /\ has(fragment, "belief")
             /\ IsString(at(at(fragment, "belief"), "fact"),
                         "program_contains_" \o stmt.node_type)
             /\ IsNumber(at(at(fragment, "belief"), "confidence"), "0.8")

\* C19: the document of a program holds exactly one fragment per top-level
\* statement, in source order, of the kind the statement calls for: a
\* FunctionDef gives a structured_knowledge function_definition with the
\* parameters in declaration order, a VariableDecl a belief with confidence
\* 0.95, an IfExpr a reasoning_context with both branch-coverage flags false,
\* and any other statement a belief program_contains_<kind> with confidence
\* 0.8.
OneFragmentPerStatement ==
    held # <<>> =>
        /\ Len(Components(held.document)) = Len(held.ast.statements)
        /\ \A k \in DOMAIN held.ast.statements :
               FragmentFor(held.ast.statements[k], Components(held.document)[k])

\* a program of five statements of four kinds has been translated
FiveStatementsTranslated ==
    /\ held # <<>>
    /\ Len(held.ast.statements) = 5
    /\ Len(Components(held.document)) = 5
    /\ {held.ast.statements[k].node_type : k \in 1..5}
           = {"VariableDecl", "WhileLoop", "FunctionCall", "IfExpr"}

\* the signature line of a function definition
Signature(stmt) ==
    "fn " \o stmt.name \o "("
    \o param_str([i \in DOMAIN stmt.params |->
                     JDict(<< <<"name", JStr(stmt.params[i][1])>>,
                              <<"type", JStr(stmt.params[i][2])>> >>)], 1)
    \o ")" \o (IF stmt.return_type = NoneStr THEN "" ELSE " -> " \o stmt.return_type)
    \o " {"

\* C20: the reverse translation of a document that the forward translation
\* produced completes without error and returns one text that holds, for
\* every function fragment, the signature `fn name(p1: T1, ...) -> R {` with
\* a body placeholder, for every belief fragment a comment, and for every
\* conditional fragment a commented summary with an if/else skeleton.
ReverseTranslationCompletes ==
    (held # <<>> /\ verdict.op = "translate_to_clarity") =>
        /\ verdict.err = ""
        /\ \A k \in DOMAIN held.ast.statements :
               CASE held.ast.statements[k].node_type = "FunctionDef" ->
                        /\ contains(verdict.clarity_code, Signature(held.ast.statements[k]))
                        /\ contains(verdict.clarity_code, "// TODO: Implement function logic")
                 [] held.ast.statements[k].node_type = "IfExpr" ->
                        /\ contains(verdict.clarity_code, "// Condition: ")
                        /\ contains(verdict.clarity_code, "} else {")
                 [] OTHER ->
                        contains(verdict.clarity_code, "// [" \o str_of_int(k - 1) \o "] ")

(***************************************************************************)
(* Literals                                                                *)
(***************************************************************************)
\* the integer that a run of digits denotes: each digit times the power of
\* ten of its place
RECURSIVE Power(_, _)
Power(b, k) == IF k = 0 THEN 1 ELSE b * Power(b, k - 1)

DigitValue(c) == CHOOSE d \in 0..9 : CharAt(Digits, d) = c

RECURSIVE PlaceValues(_, _)
PlaceValues(text, i) ==
    IF i > Len(text) THEN 0
    ELSE DigitValue(SubSeq(text, i, i)) * Power(10, Len(text) - i) + PlaceValues(text, i + 1)

Denoted(text) == PlaceValues(text, 1)

\* C21: lexing, parsing and evaluating a bare integer literal (a non-empty
\* run of decimal digits) succeeds and returns the integer that the digit
\* string denotes.
LiteralRoundTrip ==
    last.op = "interpret" =>
        /\ last.perr = "" /\ last.err = ""
        /\ last.val = IntV(Denoted(last.text))

\* a literal with a leading zero was evaluated, to forty-two
LeadingZeroEvaluated ==
    /\ last.op = "interpret"
    /\ last.text = "042"
    /\ last.val = IntV(42)

ProofLogOnlyGrows ==
    [][\A i \in 1..2 :
          /\ instances'[i].translation_proofs = held'[i]
          /\ IF verdict'.on = i
             THEN /\ Len(held'[i]) = Len(held[i]) + 1
                  /\ instances'[i].translation_proofs
                         = Append(instances[i].translation_proofs, held'[i][Len(held'[i])])
             ELSE instances'[i].translation_proofs = instances[i].translation_proofs]_vars

\* both translators were called twice, in turns
CalledInTurns ==
    /\ verdict.op = "translate_with_provenance"
    /\ \A i \in 1..2 : Len(instances[i].translation_proofs) = 2
    /\ instances[1].translation_proofs[1].timestamp = now(0)
    /\ instances[2].translation_proofs[1].timestamp = now(1)
    /\ instances[1].translation_proofs[2].timestamp = now(2)
    /\ instances[1].translation_proofs[1].clarity_source
           # instances[1].translation_proofs[2].clarity_source

(***************************************************************************)
(* The parser's one-token peek                                             *)
(***************************************************************************)
\* the line (1-based) and the column (0-based) of the character at an
\* offset of a text: what a lexer that has only advanced to it holds
LineAt(text, pos) == 1 + Cardinality({i \in 1..pos : SubSeq(text, i, i) = "\n"})

ColumnAt(text, pos) == pos - Max({0} \cup {i \in 1..pos : SubSeq(text, i, i) = "\n"})

\* C24: the peek that parse_statement makes on a statement that begins with
\* an identifier leaves the lexer as it was: after a parse, the lexer's
\* line and column are those of its offset in the text, and the token the
\* parser holds at the end (the last one produced) carries the line and
\* column of the place where it was read.
PeekRestoresLexer ==
    (last.op = "parse_program" /\ last.err = "") =>
        /\ held_lexer.self.line = LineAt(last.source, held_lexer.self.pos)
        /\ held_lexer.self.column = ColumnAt(last.source, held_lexer.self.pos)
        /\ last.token.line = LineAt(last.source, held_lexer.self.pos)
        /\ last.token.column = ColumnAt(last.source, held_lexer.self.pos)

\* the same for the programs in which no statement begins with an identifier
NoPeekNoDrift ==
    (last.op = "parse_program" /\ last.err = ""
     /\ \A k \in DOMAIN last.node.statements :
            last.node.statements[k].node_type \in {"VariableDecl", "ConstantDecl", "ReturnStmt"}) =>
        /\ held_lexer.self.line = LineAt(last.source, held_lexer.self.pos)
        /\ held_lexer.self.column = ColumnAt(last.source, held_lexer.self.pos)

(***************************************************************************)
(* Programs of the knowledge dialect                                       *)
(***************************************************************************)
\* the node a literal parses to, and the nodes of a body
LiteralNode(literal) == Literal(literal.value, literal.token_type)

ContentOf(block) ==
    [i \in DOMAIN block.pairs |-> KeyValue(block.pairs[i].key, LiteralNode(block.pairs[i].literal))]

\* the statement that a block is to parse to
StatementOf(block) ==
    CASE block.keyword = "belief" ->
             BOCBelief(<< <<"confidence", LiteralNode(block.inline)>> >>, ContentOf(block))
      [] block.keyword = "reasoning_context" -> BOCReasoningContext(<<>>, ContentOf(block))
      [] block.keyword = "intent" ->
             BOCIntent([type |-> "to_perform", value |-> LiteralNode(block.inline)], <<>>,
                       ContentOf(block))
      [] block.keyword = "self_capability" -> Block("SelfCapability", <<>>, ContentOf(block))

\* C25: a program of the knowledge dialect that is a sequence of block
\* statements (belief with `confidence=<expr>`, reasoning_context, intent
\* with `to_perform: <expr>`, self_capability) with bodies of `key: literal`
\* pairs parses, into one statement per block, in source order, each of the
\* kind of its keyword, with the confidence and the action captured and the
\* pairs of each body kept in order.
SimpleProgramParses ==
    \A blocks \in SimplePrograms :
        (last.op = "parse_boc_code" /\ last.source = ProgramText(blocks)) =>
            /\ last.err = ""
            /\ last.node.type = "BOCProgram"
            /\ Len(last.node.statements) = Len(blocks)
            /\ \A k \in DOMAIN blocks : last.node.statements[k] = StatementOf(blocks[k])

\* the four blocks of the test were parsed
TestProgramParsed ==
    /\ last.op = "parse_boc_code"
    /\ last.source = ProgramText(TestProgram)
    /\ Len(last.node.statements) = 4
    /\ last.node.statements[3].action.value = Literal("adjust_temperature", "STRING")
    /\ Len(last.node.statements[1].content) = 3

(***************************************************************************)
(* Token positions                                                         *)
(***************************************************************************)
\* the offset of the end of the line that holds an offset
RECURSIVE EndOfLine(_, _)
EndOfLine(text, pos) ==
    IF pos >= Len(text) \/ CharAt(text, pos) = "\n" THEN pos ELSE EndOfLine(text, pos + 1)

\* the offset of the first character at or after an offset that is neither
\* white space nor part of a `//` comment: where the next token begins
RECURSIVE TokenStart(_, _)
TokenStart(text, pos) ==
    IF pos >= Len(text) THEN pos
    ELSE IF isspace(CharAt(text, pos)) THEN TokenStart(text, pos + 1)
    ELSE IF CharAt(text, pos) = "/" /\ CharAt(text, pos + 1) = "/"
         THEN TokenStart(text, EndOfLine(text, pos))
    ELSE pos

\* C26: every token that the source-language lexer returns carries the
\* 1-based line and the 0-based column of its first character, for every
\* kind of token, the two-character operators included, and after newlines,
\* comments and string bodies.
TokenCarriesItsPlace ==
    (held_lexer.class = "Lexer" /\ last.op = "get_next_token" /\ last.err = ""
     /\ last.tok.type # "EOF") =>
        /\ last.tok.line = LineAt(last.before.text, TokenStart(last.before.text, last.before.pos))
        /\ last.tok.column
               = ColumnAt(last.before.text, TokenStart(last.before.text, last.before.pos))

\* the same for the tokens of one character, numbers, words and strings
OtherTokensCarryTheirPlace ==
    (held_lexer.class = "Lexer" /\ last.op = "get_next_token" /\ last.err = ""
     /\ last.tok.type \notin {"EOF", "ARROW", "EQ", "NEQ", "LTE", "GTE", "AND", "OR"}) =>
        /\ last.tok.line = LineAt(last.before.text, TokenStart(last.before.text, last.before.pos))
        /\ last.tok.column
               = ColumnAt(last.before.text, TokenStart(last.before.text, last.before.pos))

(***************************************************************************)
(* The optimized lexer beside the base lexer.                              *)
(***************************************************************************)
Outcome(out) == IF out.err # "" THEN <<"raise">> ELSE <<out.tok.type, out.tok.value>>

\* C27: read side by side over the same text, Lexer and OptimizedLexer hand
\* out the same tokens, kind and lexeme, call after call, and raise on an
\* illegal character at the same call.
SameTokenStream ==
    instances # <<>> /\ instances[1].kind = "Lexer" /\ instances[2].kind = "OptimizedLexer"
        => /\ \A k \in DOMAIN instances[1].out \cap DOMAIN instances[2].out :
                  Outcome(instances[1].out[k]) = Outcome(instances[2].out[k])
           /\ finished(instances[1]) /\ finished(instances[2])
                  => Len(instances[1].out) = Len(instances[2].out)

\* the two agree on the texts without "->", "=>", a digit after a dot, or a
\* backslash
PlainTexts ==
    {"", "a && b\n", "x = 1..2", "a ? b", "x -= 1", "a\tb\r\nc",
     "if a <= b { c } else { d }", "TRUE False", "5.x", "\"abc",
     "while i < 10 { i = i + 1; }", "\"s t\" // c\n  x >= 10;\n\ny"}

SameTokenStreamOnPlainTexts ==
    instances # <<>> /\ instances[1].kind = "Lexer" /\ instances[2].kind = "OptimizedLexer"
            /\ instances[1].text \in PlainTexts
        => /\ \A k \in DOMAIN instances[1].out \cap DOMAIN instances[2].out :
                  Outcome(instances[1].out[k]) = Outcome(instances[2].out[k])
           /\ Len(instances[1].out) = Len(instances[2].out)

(***************************************************************************)
(* The source map.                                                         *)
(***************************************************************************)
IsSourceMap == verdict = [op |-> "add_mapping"]

\* C28: after any calls of add_mapping the two directions are inverse to
\* each other: the position (line, col) leads to the path p exactly when p
\* leads back to (line, col).
DirectionsAreInverse ==
    IsSourceMap =>
        \A position \in ClarityPositions, p \in BOCPaths :
            get_boc_element_for_clarity(instances[1], position[1], position[2]) = <<p>>
                <=> get_clarity_position_for_boc(instances[1], p) = <<position>>

\* a position or a path that no call named has no mapping, and the last
\* call's pair is found in both directions
NeverAddedIsUnmapped ==
    IsSourceMap =>
        /\ \A position \in ClarityPositions :
               (\A k \in DOMAIN held : held[k][1] # position)
                   => get_boc_element_for_clarity(instances[1], position[1], position[2]) = <<>>
        /\ \A p \in BOCPaths :
               (\A k \in DOMAIN held : held[k][2] # p)
                   => get_clarity_position_for_boc(instances[1], p) = <<>>
        /\ get_boc_element_for_clarity(instances[1], held[Len(held)][1][1], held[Len(held)][1][2])
               = <<held[Len(held)][2]>>
        /\ get_clarity_position_for_boc(instances[1], held[Len(held)][2]) = <<held[Len(held)][1]>>

\* the directions are inverse as long as no call named a position or a path
\* that an earlier call had paired with something else
DirectionsAreInverseWhenPairsAreKept ==
    IsSourceMap /\ (\A j, k \in DOMAIN held :
                       held[j][1] = held[k][1] <=> held[j][2] = held[k][2])
        => \A position \in ClarityPositions, p \in BOCPaths :
               get_boc_element_for_clarity(instances[1], position[1], position[2]) = <<p>>
                   <=> get_clarity_position_for_boc(instances[1], p) = <<position>>

(***************************************************************************)
(* The end of parsing.                                                     *)
(***************************************************************************)
IsProgram(node) ==
    IF last.op = "parse_program" THEN node.node_type = "Program"
    ELSE node.type = "BOCProgram"

\* C29: parse_program comes to an end on every text, and in one of two ways:
\* it raised, or it returned a whole Program with the parser at the
\* end-of-stream token and the lexer past the last character; on a text that
\* ends inside an open brace, parenthesis or bracket it raised.
ParsingEnds ==
    last.op \in {"parse_program", "parse_boc_code"} =>
        /\ \/ last.err # ""
           \/ /\ IsProgram(last.node)
              /\ last.token.type = "EOF"
              /\ held_lexer.self.current_char = NoneCh
        /\ last.source \in UnclosedTexts \cup UnclosedDialectTexts => last.err # ""

UnclosedBraceRaised ==
    /\ last.op = "parse_program"
    /\ last.source = "fn f() {"
    /\ last.err = "Unexpected token: EOF"
    /\ last.token.type = "EOF"

(***************************************************************************)
(* The logical operators.                                                  *)
(***************************************************************************)
IsLogical == last.op = "interpret" /\ last.src > Len(Sources) - Len(LogicalForms)

Form == LogicalForms[last.src - (Len(Sources) - Len(LogicalForms))]

Calls == Only("call")

\* C30: && and || visit the left operand and then the right one, each once,
\* before the operator is applied, whatever the left operand's value: in
\* p(left) && right and p(left) || right, run where p is defined, p(left)
\* has printed, then the call on the right has printed too and the operator
\* was applied to the two values, or the unbound name on the right has
\* raised its error.
LogicalOperatorsVisitBothOperands ==
    IsLogical /\ Bound("p") =>
        /\ last.perr = ""
        /\ PrintedArgs # <<>> /\ PrintedArgs[1] = <<IntV(int(Form.left))>>
        /\ IF Form.right = "zz"
           THEN /\ last.err # ""
                /\ Len(PrintedArgs) = 1 /\ Len(Calls) = 1
                /\ Of("binop") = {}
           ELSE /\ last.err = ""
                /\ Len(PrintedArgs) = 2 /\ PrintedArgs[2] = <<IntV(2)>>
                /\ Len(Calls) = 2
                /\ Calls[1].id < Calls[2].id
                /\ \E i \in Of("binop") :
                       /\ Of("binop") = {i}
                       /\ \A j \in Of("print") : j < i
                       /\ Events[i].operator = Form.operator
                       /\ Events[i].left = IntV(int(Form.left))
                       /\ Events[i].right = IntV(2)
                       /\ last.val = IF (Form.operator = "&&") = (Form.left = "0")
                                     THEN Events[i].left ELSE Events[i].right

\* p(0) && p(2) has printed 0 and then 2, and given 0
FalseAndCalledRight ==
    /\ IsLogical /\ Bound("p")
    /\ Form = [left |-> "0", operator |-> "&&", right |-> "p(2)"]
    /\ PrintedArgs = << <<IntV(0)>>, <<IntV(2)>> >>
    /\ last.val = IntV(0)

====
